---- MODULE Spec2Model ----
(***************************************************************************)
(* A model of the Pallas TPU (Mosaic) lowering pass,                       *)
(* jax/_src/pallas/mosaic/lowering.py.                                     *)
(*                                                                         *)
(* Spec        the equation-level dispatcher jaxpr_subcomp with the loop   *)
(*             rules that call back into it; the call stack of the Python  *)
(*             code is the variable stack, the IR built so far is ops.     *)
(* SpecModule  the block-mapping validation and the module assembly of     *)
(*             lower_jaxpr_to_module.                                      *)
(***************************************************************************)
EXTENDS Integers, Sequences, FiniteSets, TLC

VARIABLES
  stack,    \* activations of jaxpr_subcomp, the innermost last
  ops,      \* the IR operations emitted so far, in emission order
  exc,      \* the exception in flight: its chain of causes, the root first
  status,   \* "running", "returned" or "raised" (of the top-level call)
  outvals,  \* what the top-level call returned
  calls,    \* every jaxpr_subcomp call made so far, by call id
  rules,    \* every invocation of a lowering rule that returned or raised
  mstate,   \* lower_jaxpr_to_module: its inputs, position and module
  app       \* one helper function applied on its own: inputs, position, result

vars == <<stack, ops, exc, status, outvals, calls, rules, mstate, app>>

dvars == <<stack, ops, exc, status, outvals, calls, rules, app>>

\* Everything but app.
lvars == <<stack, ops, exc, status, outvals, calls, rules, mstate>>

-----------------------------------------------------------------------------
(* Bounds of the explored inputs. *)

MaxEqns == 2     \* equations per jaxpr
MaxSize == 3     \* equations of a program, nested bodies included
MaxSteps == 2    \* static trip counts 0..MaxSteps
MaxUnroll == 2   \* unroll factors 0..MaxUnroll

NameStacks == {<<>>, <<"a">>, <<"a", "b">>, <<"b">>}

-----------------------------------------------------------------------------
(* Values, atoms, equations, jaxprs. *)

\* A raw host-level scalar (what read_env returns for a Literal).
Lit(v) == [kind |-> "lit", n |-> v, r |-> 0]
\* An ir.Value: result r of the operation at index n of ops; n = 0 is the
\* function entry, whose results are the function arguments.
IrVal(n, r) == [kind |-> "ir", n |-> n, r |-> r]
\* Block argument r of the region owned by operation n (r = 0: induction variable).
BlockArg(n, r) == [kind |-> "barg", n |-> n, r |-> r]

IsIrValue(v) == v.kind # "lit"

Var(name) == [lit |-> FALSE, var |-> name, val |-> 0]
Literal(v) == [lit |-> TRUE, var |-> <<0, 0>>, val |-> v]

NoJaxpr == [invars |-> 0, eqns |-> <<>>, outvars |-> <<>>]

\* The rule table and the set of primitives whose operands are not converted.
lowering_rules ==
  {"add_p", "scan_p", "while_p", "for_p", "cond_p", "run_scoped_p"}
skip_mlir_conversions == {"add_p", "scan_p"}

multiple_results(p) ==
  p \in {"scan_p", "while_p", "for_p", "cond_p", "run_scoped_p"}

\* Number of output names of an equation.
NumOut(e) ==
  CASE e.primitive = "scan_p" -> IF e.has_loop_index THEN 2 ELSE 1
    [] e.primitive = "while_p" ->
         IF e.branches = <<>> THEN 3 ELSE e.branches[2].invars
    [] e.primitive = "for_p" -> 2
    [] OTHER -> 1

\* Variables are named <<0, i>> (i-th jaxpr input) and <<k, j>> (j-th output
\* of equation k).  The most recently defined name before equation k:
LastName(invars, eqns, k) ==
  IF k = 1 THEN <<0, invars>> ELSE <<k - 1, NumOut(eqns[k - 1])>>

\* The input atoms of equation k of jaxpr j (definition before use).
EqnInvars(j, k) ==
  LET e == j.eqns[k]
      last == Var(LastName(j.invars, j.eqns, k))
      first == Var(<<0, 1>>)
  IN CASE e.primitive = "scan_p" ->
            IF e.has_loop_index
            THEN <<first, IF e.start_static THEN Literal(e.start) ELSE first, last>>
            ELSE <<first, last>>
       [] e.primitive = "while_p" ->
            IF e.branches = <<>> THEN <<first, first, last, last>>
            ELSE [i \in 1..e.branches[2].invars |-> last]
       [] e.primitive = "for_p" -> <<first, last>>
       [] e.primitive = "cond_p" -> <<first, last>>
       [] e.primitive = "run_scoped_p" -> <<first, last>>
       [] OTHER -> <<last, Literal(1)>>

EqnOutvars(j, k) == [i \in 1..NumOut(j.eqns[k]) |-> <<k, i>>]

SimpleEqn(p, dt, ns) ==
  [primitive |-> p, dtype |-> dt, name_stack |-> ns, length |-> 0, unroll |-> 1,
   start_static |-> TRUE, start |-> 0, has_loop_index |-> FALSE,
   reverse |-> FALSE, jaxpr |-> NoJaxpr, branches |-> <<>>, allocs |-> <<>>]

LoopEqn(lp, ns, body) ==
  [primitive |-> lp.primitive, dtype |-> "int32", name_stack |-> ns,
   length |-> lp.length, unroll |-> lp.unroll, start_static |-> lp.start_static,
   start |-> lp.start, has_loop_index |-> lp.has_loop_index,
   reverse |-> lp.reverse, jaxpr |-> body, branches |-> <<>>, allocs |-> <<>>,
   num_extensive |-> lp.num_extensive, jaxpr_consts |-> lp.jaxpr_consts]

LoopParam(p, len, un, st, s, hli) ==
  [primitive |-> p, length |-> len, unroll |-> un, start_static |-> st,
   start |-> s, has_loop_index |-> hli, reverse |-> FALSE,
   num_extensive |-> 0, jaxpr_consts |-> 0]

\* The parameters of a for_p equation: nsteps, unroll, reverse.
ForParam(nsteps, un, rev) ==
  [LoopParam("for_p", nsteps, un, TRUE, 0, TRUE) EXCEPT !.reverse = rev]

\* Inputs of the body of a loop: the constant, the index (if any), the carry.
BodyInvars(lp) == IF lp.has_loop_index THEN 3 ELSE 2

\* The output atoms the body of a loop may declare (one carried value).
OutAtoms(cfg, invars, es) ==
  {Var(LastName(invars, es, Len(es) + 1))}
  \cup (IF cfg.outs = "all" THEN {Literal(7)} ELSE {})

RECURSIVE SeqsOfSize(_, _, _, _, _)
RECURSIVE EqnsOfSize(_, _, _)
\* Loop equations made of exactly n equations in all (their bodies included),
\* nested at most d deep.
LoopsOfSize(cfg, n, d) ==
  IF d = 0 THEN {}
  ELSE LET bodies == SeqsOfSize(cfg, n - 1, d - 1, MaxEqns, cfg.maxloops)
       IN UNION {UNION {
            {LoopEqn(lp, ns, [invars |-> BodyInvars(lp), eqns |-> es, outvars |-> <<o>>])
               : o \in OutAtoms(cfg, BodyInvars(lp), es), ns \in cfg.ns}
            : es \in bodies} : lp \in cfg.loops}

SimpleEqns(cfg) == {SimpleEqn(k[1], k[2], ns) : k \in cfg.kinds, ns \in cfg.ns}

EqnsOfSize(cfg, n, d) ==
  (IF n = 1 THEN SimpleEqns(cfg) ELSE {}) \cup LoopsOfSize(cfg, n, d)

\* Sequences of at most l equations, of exactly m equations in all, at most
\* nl of them loops.
SeqsOfSize(cfg, m, d, l, nl) ==
  IF m = 0 THEN {<<>>}
  ELSE IF l = 0 THEN {}
  ELSE UNION {
         LET L == IF nl = 0 THEN {} ELSE LoopsOfSize(cfg, n, d)
             RL == SeqsOfSize(cfg, m - n, d, l - 1, nl - 1)
             E == IF n = 1 THEN SimpleEqns(cfg) ELSE {}
             RE == SeqsOfSize(cfg, m - n, d, l - 1, nl)
         IN {<<e>> \o r : e \in L, r \in RL} \cup {<<e>> \o r : e \in E, r \in RE}
         : n \in 1..m}

\* The output atoms a top-level jaxpr may declare.
Outvars(cfg, invars, es) ==
  LET a == Var(LastName(invars, es, Len(es) + 1))
  IN IF cfg.outs = "all"
     THEN {<<>>, <<a>>, <<Literal(7)>>, <<a, Literal(7)>>, <<Literal(7), a>>}
     ELSE {<<a>>}

\* Top-level jaxprs (one input) of a family: at most cfg.size equations in all.
JaxprsOf(cfg) ==
  UNION {UNION {{[invars |-> 1, eqns |-> es, outvars |-> o] : o \in Outvars(cfg, 1, es)}
           : es \in SeqsOfSize(cfg, m, cfg.depth, MaxEqns, cfg.maxloops)}
           : m \in 0..cfg.size}

\* Every for_p equation: any unroll factor against any trip count.
ForLoops ==
  {ForParam(nsteps, un, rev) : nsteps \in 0..MaxSteps, un \in 0..MaxUnroll, rev \in BOOLEAN}

MaxBranches == 3   \* branches of a cond_p equation: 2..MaxBranches

\* A cond_p equation: an index and one operand, one result.
CondEqn(branches, ns) ==
  [SimpleEqn("cond_p", "int32", ns) EXCEPT !.branches = branches]

\* The bodies of the branches: one input, one output.
BranchJaxprs ==
  {[invars |-> 1, eqns |-> es, outvars |-> <<Var(LastName(1, es, Len(es) + 1))>>] :
     es \in {<<>>, <<SimpleEqn("add_p", "int32", <<>>)>>,
             <<SimpleEqn("add_p", "int32", <<"a">>)>>,
             <<SimpleEqn("sort_p", "int32", <<>>)>>}}
  \cup {[invars |-> 1, eqns |-> <<>>, outvars |-> <<Literal(7)>>]}

\* Every choice of bodies for the first two branches; a later branch has no
\* equation or one that is lowered.
CondEqns ==
  UNION {{CondEqn(bs, ns) :
            bs \in {b \in [1..n -> BranchJaxprs] :
                      \A i \in 3..n : /\ b[i].outvars[1].lit = FALSE
                                      /\ \A k \in DOMAIN b[i].eqns :
                                           b[i].eqns[k] = SimpleEqn("add_p", "int32", <<"a">>)},
            ns \in {<<>>, <<"b">>}}
           : n \in 2..MaxBranches}

\* A cond_p equation on its own or after another equation.
CondPrograms ==
  {[invars |-> 1, eqns |-> pre \o <<e>>, outvars |-> <<Var(<<Len(pre) + 1, 1>>)>>] :
     pre \in {<<>>, <<SimpleEqn("add_p", "int32", <<"b">>)>>}, e \in CondEqns}

MaxAllocs == 2   \* scoped allocations of a run_scoped_p equation

\* The abstract value of one scoped allocation: an AbstractMemoryRef of some
\* dtype and memory space, an AbstractSemaphore, or anything else.
Aval(kind, shape, ms) == [kind |-> kind, shape |-> shape, memory_space |-> ms]

AllocAvals ==
  {Aval("memref", <<8, 128>>, "VMEM"), Aval("memref", <<>>, "SMEM"),
   Aval("sem_memref", <<2>>, "SEMAPHORE"), Aval("sem_memref", <<2>>, "VMEM"),
   Aval("semaphore", <<>>, "SEMAPHORE"), Aval("array", <<8>>, "VMEM")}

\* A run_scoped_p equation: two captured constants, the allocations asked
\* for, and the body over the constants and the allocations.
ScopedEqn(allocs, es, ns) ==
  [SimpleEqn("run_scoped_p", "int32", ns) EXCEPT
     !.allocs = allocs,
     !.jaxpr = [invars |-> 2 + Len(allocs), eqns |-> es,
                outvars |-> <<Var(IF es = <<>> THEN <<0, 2>> ELSE <<1, 1>>)>>]]

\* Every abstract value for the first allocation; a later one is a buffer, a
\* semaphore or something that cannot be allocated.
ScopedEqns ==
  UNION {{ScopedEqn(allocs, es, ns) :
            allocs \in {a \in [1..n -> AllocAvals] :
                          \A i \in 2..n : a[i].shape # <<2>> /\ a[i].memory_space # "SMEM"},
            es \in {<<>>, <<SimpleEqn("add_p", "int32", <<"a">>)>>,
                    <<SimpleEqn("sort_p", "int32", <<>>)>>},
            ns \in {<<>>, <<"b">>}}
           : n \in 0..MaxAllocs}

ScopedPrograms ==
  {[invars |-> 1, eqns |-> pre \o <<e>>, outvars |-> <<Var(<<Len(pre) + 1, 1>>)>>] :
     pre \in {<<>>, <<SimpleEqn("add_p", "int32", <<>>)>>}, e \in ScopedEqns}

\* Scans of one step with and without extensive operands, reversal and
\* constants closed over by the body.
ScanParams ==
  {[LoopParam("scan_p", 1, 1, TRUE, 0, hli) EXCEPT
      !.num_extensive = x, !.reverse = r, !.jaxpr_consts = c]
     : hli \in BOOLEAN, x \in 0..1, r \in BOOLEAN, c \in 0..1}

\* One of these scans on its own or after another equation.
ScanPrograms ==
  {[invars |-> 1,
    eqns |-> pre \o <<LoopEqn(lp, ns, [invars |-> BodyInvars(lp), eqns |-> es,
                                        outvars |-> <<Var(LastName(BodyInvars(lp), es,
                                                                   Len(es) + 1))>>])>>,
    outvars |-> <<Var(<<Len(pre) + 1, 1>>)>>] :
     pre \in {<<>>, <<SimpleEqn("add_p", "int32", <<"a">>)>>},
     lp \in ScanParams, ns \in {<<>>, <<"b">>},
     es \in {<<>>, <<SimpleEqn("add_p", "int32", <<>>)>>}}

\* A while_p equation that pattern_match_while_to_fori_loop does not take:
\* cond_jaxpr and body_jaxpr over the carried values, no constants.
WhileEqn(cond_jaxpr, body_jaxpr, ns) ==
  [SimpleEqn("while_p", "int32", ns) EXCEPT !.branches = <<cond_jaxpr, body_jaxpr>>]

\* General while loops of no or one carried value.
WhileEqns ==
  {WhileEqn([invars |-> 0, eqns |-> <<>>, outvars |-> <<Literal(1)>>],
            [invars |-> 0, eqns |-> <<>>, outvars |-> <<>>], ns) : ns \in {<<>>, <<"b">>}}
  \cup {WhileEqn([invars |-> 1, eqns |-> ce,
                  outvars |-> <<Var(LastName(1, ce, Len(ce) + 1))>>],
                 [invars |-> 1, eqns |-> be,
                  outvars |-> <<Var(LastName(1, be, Len(be) + 1))>>], ns) :
          ce \in {<<>>, <<SimpleEqn("add_p", "int32", <<>>)>>},
          be \in {<<>>, <<SimpleEqn("add_p", "int32", <<"a">>)>>,
                  <<SimpleEqn("sort_p", "int32", <<>>)>>},
          ns \in {<<>>, <<"b">>}}

WhilePrograms ==
  {[invars |-> 1, eqns |-> pre \o <<e>>,
    outvars |-> <<Var(IF NumOut(e) = 0 THEN <<0, 1>> ELSE <<Len(pre) + 1, 1>>)>>] :
     pre \in {<<>>, <<SimpleEqn("add_p", "int32", <<"a">>)>>}, e \in WhileEqns}

CoreLoops ==
  {LoopParam("scan_p", 2, 2, TRUE, 0, TRUE),    \* unrolled, two copies
   LoopParam("scan_p", 2, 1, FALSE, 0, TRUE)}   \* one scf.for

AllLoops ==
  {LoopParam("scan_p", len, un, st, s, TRUE)
     : len \in 0..MaxSteps, un \in 0..MaxUnroll, st \in BOOLEAN, s \in 0..1}
  \cup {LoopParam("scan_p", len, un, TRUE, 0, FALSE)
     : len \in 0..MaxSteps, un \in 0..MaxUnroll}
  \cup {LoopParam("while_p", 0, 1, FALSE, 0, TRUE)}

OkKinds == {<<"add_p", "int32">>}
AllKinds == {<<"add_p", "int32">>, <<"add_p", "bool">>, <<"sort_p", "int32">>}

\* Named scopes vary, every rule succeeds.
FamilyScopes ==
  [kinds |-> OkKinds, ns |-> NameStacks, loops |-> CoreLoops, outs |-> "one",
   size |-> MaxSize, depth |-> 1, maxloops |-> 1]
\* Failing and unregistered primitives at every depth.
FamilyErrors ==
  [kinds |-> AllKinds, ns |-> {<<>>}, loops |-> CoreLoops, outs |-> "one",
   size |-> MaxSize, depth |-> MaxSize, maxloops |-> 2]
\* Every loop shape over small bodies.
FamilyLoops ==
  [kinds |-> AllKinds, ns |-> {<<>>}, loops |-> AllLoops, outs |-> "one",
   size |-> MaxSize - 1, depth |-> 1, maxloops |-> 1]
\* Every shape of declared outputs.
FamilyOuts ==
  [kinds |-> OkKinds, ns |-> {<<>>}, loops |-> CoreLoops, outs |-> "all",
   size |-> MaxSize - 1, depth |-> 1, maxloops |-> 1]

\* for_p over small bodies.
FamilyFor ==
  [kinds |-> AllKinds, ns |-> {<<>>}, loops |-> ForLoops, outs |-> "one",
   size |-> MaxSize - 1, depth |-> 1, maxloops |-> 1]

Programs ==
  JaxprsOf(FamilyScopes) \cup JaxprsOf(FamilyErrors)
  \cup JaxprsOf(FamilyLoops) \cup JaxprsOf(FamilyOuts)
  \cup JaxprsOf(FamilyFor) \cup CondPrograms \cup ScopedPrograms \cup ScanPrograms
  \cup WhilePrograms

-----------------------------------------------------------------------------
(* Emitted operations. *)

\* Where an operation is emitted from: the call, its equation, the region.
Tag(f) == [call |-> f.id, eqn |-> f.k, region |-> f.region]
InRegion(t, r) == [t EXCEPT !.region = r]

MkOp(o, ins, t, name, val) ==
  [op |-> o, ins |-> ins, call |-> t.call, eqn |-> t.eqn, region |-> t.region,
   name |-> name, val |-> val]

\* ir_constant: one arith.constant.
ir_constant(v, t) == MkOp("arith.constant", <<>>, t, "", v)

\* _ensure_mlir_value over a list: an ir.Value is kept, a raw scalar becomes
\* the result of a new constant.  o is the operation list so far; the result
\* is the extended list and the converted values.
IsRaw(v) == ~IsIrValue(v)

ensure_mlir_values(o, vs, t) ==
  LET raws == SelectSeq(vs, IsRaw)
  IN [ops |-> o \o [j \in 1..Len(raws) |-> ir_constant(raws[j].n, t)],
      vals |-> [i \in 1..Len(vs) |->
                  IF IsIrValue(vs[i]) THEN vs[i]
                  ELSE IrVal(Len(o) + Len(SelectSeq(SubSeq(vs, 1, i), IsRaw)), 1)]]

RECURSIVE CommonPrefixIdx(_, _, _)
CommonPrefixIdx(old, new, i) ==
  IF i + 1 <= Len(old) /\ i + 1 <= Len(new) /\ old[i + 1] = new[i + 1]
  THEN CommonPrefixIdx(old, new, i + 1)
  ELSE i

compute_name_stack_updates(old_name_stack, new_name_stack) ==
  LET c == CommonPrefixIdx(old_name_stack, new_name_stack, 0)
  IN [popped |-> SubSeq(old_name_stack, c + 1, Len(old_name_stack)),
      pushed |-> SubSeq(new_name_stack, c + 1, Len(new_name_stack))]

\* Lines 810-813 swapped: the starts, then the stops.
TraceOpsStartFirst(upd, t) ==
  [i \in 1..Len(upd.pushed) |-> MkOp("tpu.trace_start", <<>>, t, upd.pushed[i], 10)]
  \o [i \in 1..Len(upd.popped) |-> MkOp("tpu.trace_stop", <<>>, t, "", 0)]

\* Lines 810-813: the trace markers of one name-stack update, the stops, then
\* the starts.
TraceOps(upd, t) ==
  [i \in 1..Len(upd.popped) |-> MkOp("tpu.trace_stop", <<>>, t, "", 0)]
  \o [i \in 1..Len(upd.pushed) |-> MkOp("tpu.trace_start", <<>>, t, upd.pushed[i], 10)]

-----------------------------------------------------------------------------
(* Activations. *)

NoLoop ==
  [mode |-> "none", i |-> 0, hi |-> 0, consts |-> <<>>, carry |-> <<>>,
   for_op |-> 0, ub |-> Lit(0), if_ops |-> <<>>]

\* The name stack of the lowering context: lower_jaxpr_to_func and
\* lower_jaxpr_to_transform_func build it empty and no rule replaces it.
ctx_name_stack == <<>>

\* map(write_env, jaxpr.invars, args) into an empty environment.
InitialEnv(jaxpr, args) ==
  [name \in {<<0, i>> : i \in 1..jaxpr.invars} |-> args[name[2]]]

\* A block shape, and None for a value that has none.
BlockShape(s) == [known |-> TRUE, shape |-> s]
NoBlockShape == [known |-> FALSE, shape |-> <<>>]

NewFrame(id, jaxpr, args, region, block_shapes) ==
  [id |-> id, jaxpr |-> jaxpr, env |-> InitialEnv(jaxpr, args), k |-> 1,
   pc |-> "eqn", region |-> region, block_shapes |-> block_shapes,
   initial_name_stack |-> ctx_name_stack,
   current_name_stack |-> ctx_name_stack,
   loop |-> NoLoop]

NewCall(parent, eqn, jaxpr, args, region) ==
  [parent |-> parent, eqn |-> eqn, jaxpr |-> jaxpr, args |-> args,
   region |-> region, returned |-> FALSE, ret |-> <<>>, branch |-> 0]

read_env(env, atom) == IF atom.lit THEN Lit(atom.val) ELSE env[atom.var]

\* read_block_shape: lines 778-779 give one to the inputs of the jaxpr only.
read_block_shape(f, atom) ==
  IF ~atom.lit /\ atom.var[1] = 0 /\ atom.var[2] <= Len(f.block_shapes)
  THEN f.block_shapes[atom.var[2]]
  ELSE NoBlockShape

\* Line 797: the block shapes of the rule context.
rule_block_shapes(f) ==
  [i \in 1..Len(EqnInvars(f.jaxpr, f.k)) |->
     read_block_shape(f, EqnInvars(f.jaxpr, f.k)[i])]

\* Lines 2568-2569: the shape of a Ref, None for anything else.
scoped_block_shapes(in_avals) ==
  [i \in 1..Len(in_avals) |->
     IF in_avals[i].kind \in {"memref", "sem_memref"}
     THEN BlockShape(in_avals[i].shape) ELSE NoBlockShape]

Without(s, i) == SubSeq(s, 1, i - 1) \o SubSeq(s, i + 1, Len(s))

\* The block shapes a rule gives to the jaxpr_subcomp of its body: lines
\* 2133-2140 (scan), 2233-2234 (while), 2112 (for), 2317 (cond).
body_block_shapes(f) ==
  CASE f.jaxpr.eqns[f.k].primitive = "scan_p" ->
         IF f.jaxpr.eqns[f.k].has_loop_index THEN rule_block_shapes(f)
         ELSE Without(rule_block_shapes(f), 2)
    [] f.jaxpr.eqns[f.k].primitive = "while_p" ->
         IF f.jaxpr.eqns[f.k].branches = <<>> THEN Without(rule_block_shapes(f), 3)
         ELSE rule_block_shapes(f)
    [] f.jaxpr.eqns[f.k].primitive = "for_p" ->
         <<BlockShape(<<>>)>> \o rule_block_shapes(f)
    [] f.jaxpr.eqns[f.k].primitive = "cond_p" -> Tail(rule_block_shapes(f))
    [] f.jaxpr.eqns[f.k].primitive = "run_scoped_p" ->
         rule_block_shapes(f) \o scoped_block_shapes(f.jaxpr.eqns[f.k].allocs)
    [] OTHER -> rule_block_shapes(f)

Top == stack[Len(stack)]
Below == SubSeq(stack, 1, Len(stack) - 1)

Running == status = "running" /\ exc = <<>> /\ stack # <<>>

AtEqn(f) == f.pc = "eqn" /\ f.k <= Len(f.jaxpr.eqns)

Eqn(f) == f.jaxpr.eqns[f.k]

\* Lines 787-813: the operands, their conversion, and the trace markers of the
\* equation's named scopes.  Only a registered primitive gets that far.
Prologue(f) ==
  LET e == Eqn(f)
      atoms == EqnInvars(f.jaxpr, f.k)
      raw == [i \in 1..Len(atoms) |-> read_env(f.env, atoms[i])]
      conv == IF e.primitive \in skip_mlir_conversions
              THEN [ops |-> ops, vals |-> raw]
              ELSE ensure_mlir_values(ops, raw, Tag(f))
      name_stack == ctx_name_stack \o e.name_stack
      upd == compute_name_stack_updates(f.current_name_stack, name_stack)
  IN [ops |-> conv.ops \o TraceOps(upd, Tag(f)), invals |-> conv.vals,
      name_stack |-> name_stack]

\* Line 837 left out: every answer is bound as a single result.
write_first_outvar(f, ans) ==
  LET outs == EqnOutvars(f.jaxpr, f.k)
  IN [name \in DOMAIN f.env \cup {outs[1]} |->
        IF name = outs[1] THEN ans[1] ELSE f.env[name]]

\* Lines 836-839: bind the rule's answer to the equation's output names.
write_outvars(f, ans) ==
  LET outs == EqnOutvars(f.jaxpr, f.k)
      bound == IF multiple_results(Eqn(f).primitive)
               THEN {outs[i] : i \in 1..Len(outs)}
               ELSE {outs[1]}
  IN [name \in DOMAIN f.env \cup bound |->
        IF name \in bound THEN ans[name[2]] ELSE f.env[name]]

\* An exception leaves the innermost activation.
Unwind(chain) ==
  /\ stack' = Below
  /\ exc' = chain
  /\ status' = IF Len(stack) = 1 THEN "raised" ELSE status

Exception(type, what, f) ==
  [type |-> type, what |-> what, call |-> f.id, eqn |-> f.k]

-----------------------------------------------------------------------------
(* jaxpr_subcomp: one equation with a rule that calls nothing back. *)

\* _add_lowering_rule: _bcast turns raw scalars into constants, then one
\* arith op for an integer or floating result; any other dtype is refused.
AddSupported(dt) == dt \in {"int32", "float32"}

AddOp(f, B) ==
  MkOp(IF Eqn(f).dtype = "int32" THEN "arith.addi" ELSE "arith.addf",
       B.vals, Tag(f), "", 0)

\* The loop of line 786 stepping over the next equation.
AddDoneSkips(f, name_stack, B) ==
  /\ ops' = Append(B.ops, AddOp(f, B))
  /\ stack' = Append(Below,
       [f EXCEPT !.env = write_outvars(f, <<IrVal(Len(B.ops) + 1, 1)>>),
                 !.k = f.k + 2, !.current_name_stack = name_stack])
  /\ rules' = Append(rules, [call |-> f.id, eqn |-> f.k, outcome |-> "ok",
                             ans |-> <<IrVal(Len(B.ops) + 1, 1)>>])

AddDone(f, name_stack, B) ==
  /\ ops' = Append(B.ops, AddOp(f, B))
  /\ stack' = Append(Below,
       [f EXCEPT !.env = write_outvars(f, <<IrVal(Len(B.ops) + 1, 1)>>),
                 !.k = f.k + 1, !.current_name_stack = name_stack])
  /\ rules' = Append(rules, [call |-> f.id, eqn |-> f.k, outcome |-> "ok",
                             ans |-> <<IrVal(Len(B.ops) + 1, 1)>>])

LowerAdd ==
  /\ Running /\ AtEqn(Top)
  /\ Eqn(Top).primitive = "add_p" /\ Eqn(Top).primitive \in lowering_rules
  /\ AddSupported(Eqn(Top).dtype)
  /\ \E P \in {Prologue(Top)} :
       \E B \in {ensure_mlir_values(P.ops, P.invals, Tag(Top))} :
         AddDone(Top, P.name_stack, B)
  /\ UNCHANGED <<exc, status, outvals, calls, mstate, app>>

\* The exception a rule raised, as lines 821-830 wrap it.
Wrapped(f, type, what) ==
  <<Exception(type, what, f), Exception("LoweringException", Eqn(f).primitive, f)>>

AddRaisesWith(f, P) ==
  /\ ops' = ensure_mlir_values(P.ops, P.invals, Tag(f)).ops
  /\ rules' = Append(rules, [call |-> f.id, eqn |-> f.k, outcome |-> "raised",
                             ans |-> <<>>])
  /\ Unwind(Wrapped(f, "NotImplementedError", Eqn(f).dtype))

\* The rule raises NotImplementedError(dtype).
LowerAddRaises ==
  /\ Running /\ AtEqn(Top)
  /\ Eqn(Top).primitive = "add_p" /\ Eqn(Top).primitive \in lowering_rules
  /\ ~AddSupported(Eqn(Top).dtype)
  /\ \E P \in {Prologue(Top)} : AddRaisesWith(Top, P)
  /\ UNCHANGED <<outvals, calls, mstate, app>>

\* The raise of lines 832-835 moved under the try of line 815.
UnregisteredErrorInTry(f) == Wrapped(f, "NotImplementedError", Eqn(f).primitive)

\* Lines 831-835: no rule for the primitive.  The raise is not inside the try.
UnregisteredError(f) == <<Exception("NotImplementedError", Eqn(f).primitive, f)>>

LowerUnregistered ==
  /\ Running /\ AtEqn(Top)
  /\ Eqn(Top).primitive \notin lowering_rules
  /\ Unwind(UnregisteredError(Top))
  /\ UNCHANGED <<ops, outvals, calls, rules, mstate, app>>

-----------------------------------------------------------------------------
(* The counted loop, _lower_jaxpr_to_for_loop, and the rules that use it. *)

\* Line 2147 without the comparison with unroll: every static loop unrolls.
for_loop_strategy_static(start, num_steps, unroll) ==
  IF ~IsIrValue(start) /\ ~IsIrValue(num_steps)
  THEN "unroll"
  ELSE IF unroll # 1 THEN "raise" ELSE "for"

\* Lines 2145-2159: unroll completely, refuse, or build one scf.for.
for_loop_strategy(start, num_steps, unroll) ==
  IF ~IsIrValue(start) /\ ~IsIrValue(num_steps) /\ num_steps.n = unroll
  THEN "unroll"
  ELSE IF unroll # 1 THEN "raise" ELSE "for"

\* _run_body: the arguments of one lowering of the body.
run_body_args(consts, i, args, has_loop_index) ==
  IF has_loop_index THEN consts \o <<i>> \o args ELSE consts \o args

\* _scan_lowering_rule, lines 2198-2210: what it hands to
\* _lower_jaxpr_to_for_loop.
ScanCallArgs(e, P, consts, args) ==
  [ops |-> args.ops, name_stack |-> P.name_stack,
   consts |-> consts.vals, args |-> args.vals,
   start |-> IF e.has_loop_index THEN P.invals[2] ELSE Lit(0),
   num_steps |-> Lit(e.length), unroll |-> e.unroll,
   has_loop_index |-> e.has_loop_index, ub |-> Lit(0)]

ScanCallConsts(e, P, t, consts) ==
  ScanCallArgs(e, P, consts,
    ensure_mlir_values(consts.ops,
      SubSeq(P.invals, IF e.has_loop_index THEN 3 ELSE 2, Len(P.invals)), t))

ScanCall(e, P, t) ==
  ScanCallConsts(e, P, t, ensure_mlir_values(P.ops, <<P.invals[1]>>, t))

\* _lower_while_via_fori, lines 2229-2243.
WhileCall(P, t) ==
  [ops |-> Append(P.ops, MkOp("arith.subi", <<P.invals[3], P.invals[2]>>, t, "", 0)),
   name_stack |-> P.name_stack,
   consts |-> <<P.invals[1]>>, args |-> SubSeq(P.invals, 4, Len(P.invals)),
   start |-> P.invals[2], num_steps |-> IrVal(Len(P.ops) + 1, 1), unroll |-> 1,
   has_loop_index |-> TRUE, ub |-> P.invals[3]]

LoopCallWith(f, P) ==
  IF Eqn(f).primitive = "scan_p" THEN ScanCall(Eqn(f), P, Tag(f)) ELSE WhileCall(P, Tag(f))

\* The loop rule of the equation at f, up to its call of
\* _lower_jaxpr_to_for_loop.
LoopCalls(f) == {LoopCallWith(f, P) : P \in {Prologue(f)}}

\* Lines 2186-2192 without the test of reverse.
scan_unimplemented_forward(e) == e.num_extensive # 0 \/ e.jaxpr_consts # 0

\* Lines 2186-2192: the scans _scan_lowering_rule refuses at once.
scan_unimplemented(e) == e.num_extensive # 0 \/ e.reverse \/ e.jaxpr_consts # 0

\* A loop equation whose rule gets as far as _lower_jaxpr_to_for_loop.
IsLoop(e) ==
  /\ e.primitive \in {"scan_p", "while_p"} /\ e.primitive \in lowering_rules
  /\ e.primitive = "scan_p" => ~scan_unimplemented(e)
  /\ e.primitive = "while_p" => e.branches = <<>>

\* Lines 2186-2192, wrapped by lines 821-830 of the enclosing jaxpr_subcomp:
\* the named scopes of the equation are entered, the rule raises.
LowerScanUnimplemented ==
  /\ Running /\ AtEqn(Top)
  /\ Eqn(Top).primitive = "scan_p" /\ Eqn(Top).primitive \in lowering_rules
  /\ scan_unimplemented(Eqn(Top))
  /\ \E P \in {Prologue(Top)} : ops' = P.ops
  /\ rules' = Append(rules, [call |-> Top.id, eqn |-> Top.k,
                             outcome |-> "unimplemented_scan", ans |-> <<>>])
  /\ Unwind(Wrapped(Top, "NotImplementedError", "scan"))
  /\ UNCHANGED <<outvals, calls, mstate, app>>

Strategy(C) == for_loop_strategy(C.start, C.num_steps, C.unroll)

\* What the rule returns once the loop is lowered: lines 2211-2215 and 2244.
RuleResult(o, f, out) ==
  IF Eqn(f).primitive = "scan_p"
  THEN IF Eqn(f).has_loop_index
       THEN [ops |-> Append(o, ir_constant(Eqn(f).length, Tag(f))),
             ans |-> <<IrVal(Len(o) + 1, 1)>> \o out]
       ELSE [ops |-> o, ans |-> out]
  ELSE [ops |-> o, ans |-> <<f.loop.ub, f.loop.ub>> \o out]

\* The rule is done: bind its answer and go on with the next equation.
FinishWith(below, f, name_stack, R) ==
  /\ ops' = R.ops
  /\ stack' = Append(below,
       [f EXCEPT !.env = write_outvars(f, R.ans), !.k = f.k + 1, !.pc = "eqn",
                 !.current_name_stack = name_stack, !.loop = NoLoop])
  /\ rules' = Append(rules, [call |-> f.id, eqn |-> f.k, outcome |-> "ok",
                             ans |-> R.ans])

FinishRule(below, f, o, out, name_stack) ==
  \E R \in {RuleResult(o, f, out)} : FinishWith(below, f, name_stack, R)

\* Enter jaxpr_subcomp for the body of the loop of f.
CallBody(below, f, o, body_args, region) ==
  /\ ops' = o
  /\ stack' = below \o
       <<f, NewFrame(Len(calls) + 1, Eqn(f).jaxpr, body_args, region,
                     body_block_shapes(f))>>

InLoop(f, C, mode, i, hi, for_op) ==
  [f EXCEPT !.pc = "rule", !.current_name_stack = C.name_stack,
            !.loop = [mode |-> mode, i |-> i, hi |-> hi, consts |-> C.consts,
                      carry |-> C.args, for_op |-> for_op, ub |-> C.ub,
                      if_ops |-> <<>>]]

UnrollNothingWith(f, C) ==
  /\ Strategy(C) = "unroll"
  /\ C.num_steps.n = 0
  /\ FinishRule(Below, f, C.ops, C.args, C.name_stack)

\* Trip count equal to the unroll factor, all static, and no iteration.
LoopUnrollNothing ==
  /\ Running /\ AtEqn(Top) /\ IsLoop(Eqn(Top))
  /\ \E C \in LoopCalls(Top) : UnrollNothingWith(Top, C)
  /\ UNCHANGED <<exc, status, outvals, calls, mstate, app>>

UnrollBeginWith(f, C, body_args) ==
  /\ Strategy(C) = "unroll"
  /\ C.num_steps.n > 0
  /\ CallBody(Below, InLoop(f, C, "unroll", C.start.n, C.start.n + C.num_steps.n, 0),
              Append(C.ops, ir_constant(C.start.n, Tag(f))), body_args, f.region)
  /\ calls' = Append(calls, NewCall(f.id, f.k, Eqn(f).jaxpr, body_args, f.region))

UnrollBeginCall(f, C) ==
  UnrollBeginWith(f, C,
    run_body_args(C.consts, IrVal(Len(C.ops) + 1, 1), C.args, C.has_loop_index))

\* Lines 2151-2155, first iteration.
LoopUnrollBegin ==
  /\ Running /\ AtEqn(Top) /\ IsLoop(Eqn(Top))
  /\ \E C \in LoopCalls(Top) : UnrollBeginCall(Top, C)
  /\ UNCHANGED <<exc, status, outvals, rules, mstate, app>>

UnrollUnsupportedWith(f, C) ==
  /\ Strategy(C) = "raise"
  /\ ops' = C.ops
  /\ rules' = Append(rules, [call |-> f.id, eqn |-> f.k,
                             outcome |-> "unsupported_unroll", ans |-> <<>>])
  /\ Unwind(Wrapped(f, "NotImplementedError", "unroll"))

\* Lines 2157-2159, wrapped by lines 821-830 of the enclosing jaxpr_subcomp.
LoopUnrollUnsupported ==
  /\ Running /\ AtEqn(Top) /\ IsLoop(Eqn(Top))
  /\ \E C \in LoopCalls(Top) : UnrollUnsupportedWith(Top, C)
  /\ UNCHANGED <<outvals, calls, mstate, app>>

\* Lines 2160-2163: the bounds, the step and the scf.for itself.
ForOpsStep(t, args, lbd, o1) ==
  Append(Append(o1, ir_constant(1, t)),
         MkOp("scf.for", <<lbd, IrVal(Len(o1), 1), IrVal(Len(o1) + 1, 1)>> \o args,
              t, "", 0))

ForOpsBounds(t, args, L, N) ==
  ForOpsStep(t, args, L.vals[1],
             Append(N.ops, MkOp("arith.addi", <<L.vals[1], N.vals[1]>>, t, "", 0)))

ForOpsStart(t, num_steps, args, L) ==
  ForOpsBounds(t, args, L, ensure_mlir_values(L.ops, <<num_steps>>, t))

ForOps(o, t, start, num_steps, args) ==
  ForOpsStart(t, num_steps, args, ensure_mlir_values(o, <<start>>, t))

ForBeginWith(f, C, o, body_args) ==
  /\ CallBody(Below, InLoop(f, C, "for", 0, 0, Len(o)), o, body_args, Len(o))
  /\ calls' = Append(calls, NewCall(f.id, f.k, Eqn(f).jaxpr, body_args, Len(o)))

ForBeginOps(f, C, o) ==
  ForBeginWith(f, C, o,
    run_body_args(C.consts, BlockArg(Len(o), 0),
                  [j \in 1..Len(C.args) |-> BlockArg(Len(o), j)], C.has_loop_index))

ForBeginCall(f, C) ==
  /\ Strategy(C) = "for"
  /\ \E o \in {ForOps(C.ops, Tag(f), C.start, C.num_steps, C.args)} :
       ForBeginOps(f, C, o)

\* Lines 2160-2167: one scf.for, whose body is lowered inside its region.
LoopForBegin ==
  /\ Running /\ AtEqn(Top) /\ IsLoop(Eqn(Top))
  /\ \E C \in LoopCalls(Top) : ForBeginCall(Top, C)
  /\ UNCHANGED <<exc, status, outvals, rules, mstate, app>>

-----------------------------------------------------------------------------
(* jaxpr_subcomp: the end of the equations, lines 841-853. *)

AtEnd(f) == f.pc = "eqn" /\ f.k = Len(f.jaxpr.eqns) + 1

DrainUpdates(f) ==
  compute_name_stack_updates(f.current_name_stack, f.initial_name_stack)

\* Lines 841-846 left out: the scopes of the last equation stay open.
DrainNothing(f) == <<>>

\* The drain of the name stack: one trace_stop per scope still open.
DrainOps(f) ==
  [i \in 1..Len(DrainUpdates(f).popped) |-> MkOp("tpu.trace_stop", <<>>, Tag(f), "", 0)]

\* Lines 848-852 without ir_constant: a literal output is returned raw.
OutvalsRaw(f) ==
  [ops |-> ops \o DrainOps(f),
   vals |-> [i \in 1..Len(f.jaxpr.outvars) |-> read_env(f.env, f.jaxpr.outvars[i])]]

\* The declared outputs, a literal output materialized by ir_constant.
Outvals(f) ==
  ensure_mlir_values(ops \o DrainOps(f),
    [i \in 1..Len(f.jaxpr.outvars) |-> read_env(f.env, f.jaxpr.outvars[i])], Tag(f))

\* Line 846 asserts that the drain pushes nothing.
Returning == Running /\ AtEnd(Top) /\ DrainUpdates(Top).pushed = <<>>

Returned(cs, f, vals) == [cs EXCEPT ![f.id].returned = TRUE, ![f.id].ret = vals]

ReturnTopWith(f, R) ==
  /\ ops' = R.ops
  /\ outvals' = R.vals
  /\ calls' = Returned(calls, f, R.vals)

\* The top-level call returns.
ReturnTop ==
  /\ Returning /\ Len(stack) = 1
  /\ \E R \in {Outvals(Top)} : ReturnTopWith(Top, R)
  /\ stack' = <<>>
  /\ status' = "returned"
  /\ UNCHANGED <<exc, rules, mstate, app>>

Caller == stack[Len(stack) - 1]
BelowCaller == SubSeq(stack, 1, Len(stack) - 2)

NextCopyWith(f, R, body_args) ==
  /\ ops' = Append(R.ops, ir_constant(f.loop.i + 1, Tag(f)))
  /\ stack' = BelowCaller \o
       <<[f EXCEPT !.loop.i = f.loop.i + 1, !.loop.carry = R.vals],
         NewFrame(Len(calls) + 1, Eqn(f).jaxpr, body_args, f.region,
                  body_block_shapes(f))>>
  /\ calls' = Append(Returned(calls, Top, R.vals),
                     NewCall(f.id, f.k, Eqn(f).jaxpr, body_args, f.region))

NextCopy(f, R) ==
  NextCopyWith(f, R,
    run_body_args(f.loop.consts, IrVal(Len(R.ops) + 1, 1), R.vals,
                  Eqn(f).has_loop_index))

\* A copy of an unrolled body returns and another one follows (line 2151).
ReturnToUnrolledNext ==
  /\ Returning /\ Len(stack) > 1
  /\ Caller.loop.mode = "unroll" /\ Caller.loop.i + 1 < Caller.loop.hi
  /\ \E R \in {Outvals(Top)} : NextCopy(Caller, R)
  /\ UNCHANGED <<exc, status, outvals, rules, mstate, app>>

LastCopy(f, R) ==
  /\ FinishRule(BelowCaller, f, R.ops, R.vals, f.current_name_stack)
  /\ calls' = Returned(calls, Top, R.vals)

\* The last copy of an unrolled body returns (line 2156).
ReturnToUnrolledLast ==
  /\ Returning /\ Len(stack) > 1
  /\ Caller.loop.mode = "unroll" /\ Caller.loop.i + 1 >= Caller.loop.hi
  /\ \E R \in {Outvals(Top)} : LastCopy(Caller, R)
  /\ UNCHANGED <<exc, status, outvals, mstate, app>>

ForYield(f, R) ==
  /\ FinishRule(BelowCaller, f,
       Append(R.ops, MkOp("scf.yield", R.vals, InRegion(Tag(f), f.loop.for_op), "", 0)),
       [j \in 1..Len(f.loop.carry) |-> IrVal(f.loop.for_op, j)],
       f.current_name_stack)
  /\ calls' = Returned(calls, Top, R.vals)

\* The body of an scf.for returns: yield, then the results of the loop
\* (lines 2168-2169).
ReturnToFor ==
  /\ Returning /\ Len(stack) > 1
  /\ Caller.loop.mode = "for"
  /\ \E R \in {Outvals(Top)} : ForYield(Caller, R)
  /\ UNCHANGED <<exc, status, outvals, mstate, app>>

-----------------------------------------------------------------------------
(* _for_lowering_rule: the discharged body, lowered in line once per step. *)

IsFor(e) == e.primitive = "for_p" /\ e.primitive \in lowering_rules

\* Lines 2101-2103: the operands are a Ref, which stays a Ref, and an array.
for_should_discharge == <<FALSE, TRUE>>

\* Line 2107 counting unroll rather than nsteps.
for_range_unroll(nsteps, unroll) == unroll

\* Line 2107, range(nsteps): the rule never reads unroll.
for_range(nsteps, unroll) == nsteps

\* Lines 2108-2109.
for_index(i, nsteps, reverse) == IF reverse THEN nsteps - i - 1 ELSE i

\* Lines 2115-2119: the results of the body take the place of the arrays.
for_rethread(args, non_ref_args, should_discharge) ==
  [j \in 1..Len(args) |->
     IF should_discharge[j]
     THEN non_ref_args[Cardinality({m \in 1..j : should_discharge[m]})]
     ELSE args[j]]

\* What the rule keeps between two steps.
ForCall(P) ==
  [ops |-> P.ops, name_stack |-> P.name_stack, consts |-> <<>>,
   args |-> P.invals, ub |-> Lit(0)]

ForNothingWith(f, P) ==
  /\ for_range(Eqn(f).length, Eqn(f).unroll) = 0
  /\ FinishWith(Below, f, P.name_stack, [ops |-> P.ops, ans |-> P.invals])

\* No step at all: the operands are the results (line 2120).
LowerForNothing ==
  /\ Running /\ AtEqn(Top) /\ IsFor(Eqn(Top))
  /\ \E P \in {Prologue(Top)} : ForNothingWith(Top, P)
  /\ UNCHANGED <<exc, status, outvals, calls, mstate, app>>

ForBodyArgs(o, args) == <<IrVal(Len(o), 1)>> \o args

\* Lines 2110-2114 for step i: the index as a constant, then the body.
ForStep(below, f, i, o, args, cs) ==
  \E o1 \in {Append(o, ir_constant(for_index(i, Eqn(f).length, Eqn(f).reverse), Tag(f)))} :
    /\ CallBody(below, f, o1, ForBodyArgs(o1, args), f.region)
    /\ calls' = Append(cs, NewCall(f.id, f.k, Eqn(f).jaxpr, ForBodyArgs(o1, args), f.region))

ForBeginStep(f, P) ==
  /\ for_range(Eqn(f).length, Eqn(f).unroll) > 0
  /\ ForStep(Below,
             InLoop(f, ForCall(P), "for_p", 0,
                    for_range(Eqn(f).length, Eqn(f).unroll), 0),
             0, P.ops, P.invals, calls)

\* The first step of the Python loop of line 2107.
LowerForBegin ==
  /\ Running /\ AtEqn(Top) /\ IsFor(Eqn(Top))
  /\ \E P \in {Prologue(Top)} : ForBeginStep(Top, P)
  /\ UNCHANGED <<exc, status, outvals, rules, mstate, app>>

ForNextWith(f, R, args) ==
  ForStep(BelowCaller, [f EXCEPT !.loop.i = f.loop.i + 1, !.loop.carry = args],
          f.loop.i + 1, R.ops, args, Returned(calls, Top, R.vals))

\* A step returns and another one follows.
ReturnToForStepNext ==
  /\ Returning /\ Len(stack) > 1
  /\ Caller.loop.mode = "for_p" /\ Caller.loop.i + 1 < Caller.loop.hi
  /\ \E R \in {Outvals(Top)} :
       ForNextWith(Caller, R, for_rethread(Caller.loop.carry, R.vals, for_should_discharge))
  /\ UNCHANGED <<exc, status, outvals, rules, mstate, app>>

ForLastWith(f, R, args) ==
  /\ FinishWith(BelowCaller, f, f.current_name_stack, [ops |-> R.ops, ans |-> args])
  /\ calls' = Returned(calls, Top, R.vals)

\* The last step returns: the rule returns args (line 2120).
ReturnToForStepLast ==
  /\ Returning /\ Len(stack) > 1
  /\ Caller.loop.mode = "for_p" /\ Caller.loop.i + 1 >= Caller.loop.hi
  /\ \E R \in {Outvals(Top)} :
       ForLastWith(Caller, R, for_rethread(Caller.loop.carry, R.vals, for_should_discharge))
  /\ UNCHANGED <<exc, status, outvals, mstate, app>>

-----------------------------------------------------------------------------
(* _cond_lowering_rule: a cascade of scf.if, one level per call of the rule. *)
(* The then block of the scf.if at index n is the region n, its else block  *)
(* the region -n.                                                            *)

IsCond(e) == e.primitive = "cond_p" /\ e.primitive \in lowering_rules

\* Lines 2312-2315: the constant 0, index != 0, and the scf.if on it.
CondLevelOps(o, index, t) ==
  o \o <<MkOp("arith.constant", <<>>, t, "", 0),
         MkOp("arith.cmpi", <<index, IrVal(Len(o) + 1, 1)>>, t, "ne", 0),
         MkOp("scf.if", <<IrVal(Len(o) + 2, 1)>>, t, "", 0)>>

\* Line 2325 without the subtraction: the inner rule gets the same index.
cond_inner_index_same(o, index, t) == [ops |-> o, val |-> index]

\* Line 2325: index - 1, computed inside the then block.
cond_inner_index(o, index, t) ==
  [ops |-> o \o <<MkOp("arith.constant", <<>>, t, "", 1),
                  MkOp("arith.subi", <<index, IrVal(Len(o) + 1, 1)>>, t, "", 0)>>,
   val |-> IrVal(Len(o) + 2, 1)]

\* Lines 2312-2328, down to the level that has two branches left: what is
\* emitted before the first branch is lowered, and the scf.if of each level.
RECURSIVE CondCascade(_, _, _, _)
CondCascade(o, index, nb, t) ==
  IF nb > 2
  THEN LET I == cond_inner_index(CondLevelOps(o, index, t), index, InRegion(t, Len(o) + 3))
           inner == CondCascade(I.ops, I.val, nb - 1, InRegion(t, Len(o) + 3))
       IN [ops |-> inner.ops, if_ops |-> <<Len(o) + 3>> \o inner.if_ops]
  ELSE [ops |-> CondLevelOps(o, index, t), if_ops |-> <<Len(o) + 3>>]

CondCall(P) ==
  [name_stack |-> P.name_stack, consts |-> <<>>, args |-> Tail(P.invals),
   ub |-> Lit(0)]

\* jaxpr_subcomp(lowering_context, branches[b].jaxpr, *args) in a block.
CallBranch(below, f, o, b, region, cs) ==
  /\ ops' = o
  /\ stack' = below \o
       <<f, NewFrame(Len(calls) + 1, Eqn(f).branches[b + 1], f.loop.carry, region,
                     body_block_shapes(f))>>
  /\ calls' = Append(cs,
       [NewCall(f.id, f.k, Eqn(f).branches[b + 1], f.loop.carry, region)
          EXCEPT !.branch = b])

CondBeginWith(f, P, K, n) ==
  CallBranch(Below,
    [InLoop(f, CondCall(P), "cond", n - 1, n, K.if_ops[1])
       EXCEPT !.loop.if_ops = K.if_ops],
    K.ops, n - 1, K.if_ops[n - 1], calls)

\* The rule down to line 2330 of the innermost level: the last branch is
\* lowered first, in the innermost then block.
LowerCondBegin ==
  /\ Running /\ AtEqn(Top) /\ IsCond(Eqn(Top))
  /\ \E P \in {Prologue(Top)} :
       \E K \in {CondCascade(P.ops, P.invals[1], Len(Eqn(Top).branches), Tag(Top))} :
         CondBeginWith(Top, P, K, Len(Eqn(Top).branches))
  /\ UNCHANGED <<exc, status, outvals, rules, mstate, app>>

\* scf.YieldOp(out) closing the block the branch was lowered in.
CondYield(f, R) ==
  Append(R.ops, MkOp("scf.yield", R.vals, InRegion(Tag(f), Top.region), "", 0))

\* Line 2331 of the level above: its then block yields the inner scf.if.
CondYieldInner(f, o) ==
  IF f.loop.i + 1 < f.loop.hi
  THEN Append(o, MkOp("scf.yield", <<IrVal(f.loop.if_ops[f.loop.i + 1], 1)>>,
                      InRegion(Tag(f), f.loop.if_ops[f.loop.i]), "", 0))
  ELSE o

CondNextWith(f, R, o) ==
  CallBranch(BelowCaller, [f EXCEPT !.loop.i = f.loop.i - 1], o, f.loop.i - 1,
             0 - f.loop.if_ops[f.loop.i], Returned(calls, Top, R.vals))

\* Branch b >= 1 is lowered: lines 2331-2333, branch b - 1 goes to the else
\* block of the level that has it first.
ReturnToCondNext ==
  /\ Returning /\ Len(stack) > 1
  /\ Caller.loop.mode = "cond" /\ Caller.loop.i >= 1
  /\ \E R \in {Outvals(Top)} :
       \E o \in {CondYieldInner(Caller, CondYield(Caller, R))} :
         CondNextWith(Caller, R, o)
  /\ UNCHANGED <<exc, status, outvals, rules, mstate, app>>

CondLastWith(f, R, o) ==
  /\ FinishWith(BelowCaller, f, f.current_name_stack,
                [ops |-> o, ans |-> <<IrVal(f.loop.if_ops[1], 1)>>])
  /\ calls' = Returned(calls, Top, R.vals)

\* Branch 0 is lowered in the outermost else block: lines 2334-2335.
ReturnToCondLast ==
  /\ Returning /\ Len(stack) > 1
  /\ Caller.loop.mode = "cond" /\ Caller.loop.i = 0
  /\ \E R \in {Outvals(Top)} :
       \E o \in {CondYield(Caller, R)} : CondLastWith(Caller, R, o)
  /\ UNCHANGED <<exc, status, outvals, mstate, app>>

-----------------------------------------------------------------------------
(* _while_lowering_rule: the ordinary while loop. *)

\* fori_jaxpr is None.
IsWhile(e) ==
  /\ e.primitive = "while_p" /\ e.primitive \in lowering_rules
  /\ e.branches # <<>>

\* The arguments of a block of the scf.while at w: the before block is
\* region w, the after block region 0 - w.
WhileBlockArgs(f, region) ==
  [j \in 1..NumOut(Eqn(f)) |-> BlockArg(region, j)]

\* Lines 2271-2288: the scf.while over the carried values, then cond_jaxpr
\* in its before block.
LowerWhileBegin ==
  /\ Running /\ AtEqn(Top) /\ IsWhile(Eqn(Top))
  /\ \E P \in {Prologue(Top)} :
       LET w == Len(P.ops) + 1
       IN CallBranch(Below,
            InLoop(Top, [name_stack |-> P.name_stack, consts |-> <<>>,
                         args |-> WhileBlockArgs(Top, w), ub |-> Lit(0)],
                   "while", 0, 1, w),
            Append(P.ops, MkOp("scf.while", P.invals, Tag(Top), "", 0)),
            0, w, calls)
  /\ UNCHANGED <<exc, status, outvals, rules, mstate, app>>

\* Lines 2289-2301: scf.condition closes the before block, then body_jaxpr
\* in the after block.
ReturnToWhileCond ==
  /\ Returning /\ Len(stack) > 1
  /\ Caller.loop.mode = "while" /\ Caller.loop.i = 0
  /\ \E R \in {Outvals(Top)} :
       LET w == Caller.loop.for_op
       IN CallBranch(BelowCaller,
            [Caller EXCEPT !.loop.i = 1, !.loop.carry = WhileBlockArgs(Caller, 0 - w)],
            Append(R.ops, MkOp("scf.condition", R.vals \o WhileBlockArgs(Caller, w),
                               InRegion(Tag(Caller), w), "", 0)),
            1, 0 - w, Returned(calls, Top, R.vals))
  /\ UNCHANGED <<exc, status, outvals, rules, mstate, app>>

\* Lines 2302-2304: scf.yield if the body returned anything, then the
\* results of the scf.while.
ReturnToWhileBody ==
  /\ Returning /\ Len(stack) > 1
  /\ Caller.loop.mode = "while" /\ Caller.loop.i = 1
  /\ \E R \in {Outvals(Top)} :
       LET w == Caller.loop.for_op
       IN /\ FinishWith(BelowCaller, Caller, Caller.current_name_stack,
               [ops |-> IF R.vals # <<>>
                        THEN Append(R.ops, MkOp("scf.yield", R.vals,
                                                InRegion(Tag(Caller), 0 - w), "", 0))
                        ELSE R.ops,
                ans |-> [j \in 1..NumOut(Eqn(Caller)) |-> IrVal(w, j)]])
          /\ calls' = Returned(calls, Top, R.vals)
  /\ UNCHANGED <<exc, status, outvals, mstate, app>>

-----------------------------------------------------------------------------
(* _run_scoped_lowering_rule and _alloc_value. *)

IsRunScoped(e) == e.primitive = "run_scoped_p" /\ e.primitive \in lowering_rules

AllocOpNames == {"memref.alloca", "tpu.sem_alloc"}

\* _alloc_value: the operation that allocates, or the exception raised.
alloc_value(aval) ==
  CASE aval.kind = "memref" -> "memref.alloca"
    [] aval.kind = "sem_memref" ->
         IF aval.memory_space = "SEMAPHORE" THEN "tpu.sem_alloc" ELSE "AssertionError"
    [] aval.kind = "semaphore" -> "tpu.sem_alloc"
    [] OTHER -> "NotImplementedError"

\* The first allocation that raises; one past the last when none does.
FirstBadAlloc(in_avals) ==
  LET bad == {i \in DOMAIN in_avals : alloc_value(in_avals[i]) \notin AllocOpNames}
  IN IF bad = {} THEN Len(in_avals) + 1 ELSE CHOOSE i \in bad : \A j \in bad : i <= j

\* Line 2566 left out: the allocations go where the region itself went.
ScopedRegionOutside(t, n) == t

\* Line 2566, with ir.InsertionPoint(region.body).
ScopedRegion(t, n) == InRegion(t, n)

\* Lines 2562 and 2567: the tpu.region, then inside it the allocations
\* before the n-th, in the order of the inputs of the body.
ScopedOps(o, in_avals, n, t) ==
  Append(o, MkOp("tpu.region", <<>>, t, "", 0))
  \o [i \in 1..(n - 1) |->
        MkOp(alloc_value(in_avals[i]), <<>>, ScopedRegion(t, Len(o) + 1), "", i)]

\* Line 2573: *consts, *args.
ScopedBodyArgs(P, n) == P.invals \o [i \in 1..n |-> IrVal(Len(P.ops) + 1 + i, 1)]

ScopedBeginWith(f, P, o, body_args) ==
  /\ CallBody(Below,
       InLoop(f, [name_stack |-> P.name_stack, consts |-> P.invals, args |-> <<>>,
                  ub |-> Lit(0)], "scoped", 0, 0, Len(P.ops) + 1),
       o, body_args, Len(P.ops) + 1)
  /\ calls' = Append(calls, NewCall(f.id, f.k, Eqn(f).jaxpr, body_args, Len(P.ops) + 1))

\* Lines 2561-2573: every allocation succeeds, the body is lowered in the
\* region.
LowerRunScopedBegin ==
  /\ Running /\ AtEqn(Top) /\ IsRunScoped(Eqn(Top))
  /\ FirstBadAlloc(Eqn(Top).allocs) > Len(Eqn(Top).allocs)
  /\ \E P \in {Prologue(Top)} :
       \E o \in {ScopedOps(P.ops, Eqn(Top).allocs, Len(Eqn(Top).allocs) + 1, Tag(Top))} :
         ScopedBeginWith(Top, P, o, ScopedBodyArgs(P, Len(Eqn(Top).allocs)))
  /\ UNCHANGED <<exc, status, outvals, rules, mstate, app>>

ScopedRaisesWith(f, P, n) ==
  /\ ops' = ScopedOps(P.ops, Eqn(f).allocs, n, Tag(f))
  /\ rules' = Append(rules, [call |-> f.id, eqn |-> f.k, outcome |-> "raised",
                             ans |-> <<>>])
  /\ Unwind(Wrapped(f, alloc_value(Eqn(f).allocs[n]), "alloc"))

\* _alloc_value raises (line 2545 or 2557) on the first input it cannot
\* allocate.
LowerRunScopedRaises ==
  /\ Running /\ AtEqn(Top) /\ IsRunScoped(Eqn(Top))
  /\ FirstBadAlloc(Eqn(Top).allocs) <= Len(Eqn(Top).allocs)
  /\ \E P \in {Prologue(Top)} :
       ScopedRaisesWith(Top, P, FirstBadAlloc(Eqn(Top).allocs))
  /\ UNCHANGED <<outvals, calls, mstate, app>>

ScopedYield(f, R) ==
  /\ FinishWith(BelowCaller, f, f.current_name_stack,
       [ops |-> Append(R.ops, MkOp("tpu.yield", R.vals,
                                   InRegion(Tag(f), f.loop.for_op), "", 0)),
        ans |-> [j \in 1..NumOut(Eqn(f)) |-> IrVal(f.loop.for_op, j)]])
  /\ calls' = Returned(calls, Top, R.vals)

\* Lines 2574-2575: the body's results are yielded, the region's returned.
ReturnToRunScoped ==
  /\ Returning /\ Len(stack) > 1
  /\ Caller.loop.mode = "scoped"
  /\ \E R \in {Outvals(Top)} : ScopedYield(Caller, R)
  /\ UNCHANGED <<exc, status, outvals, mstate, app>>

-----------------------------------------------------------------------------
(* An exception raised under a rule reaches lines 819-830 of the caller. *)

Propagating == status = "running" /\ exc # <<>> /\ stack # <<>>

IsLoweringException(x) == x.type = "LoweringException"

\* Lines 819-820 left out: every enclosing call wraps again.
ReraiseWrapsAgain ==
  /\ Propagating
  /\ IsLoweringException(exc[Len(exc)])
  /\ Unwind(Append(exc, Exception("LoweringException", Eqn(Top).primitive, Top)))
  /\ UNCHANGED <<ops, outvals, calls, rules, mstate, app>>

\* except LoweringException: raise
Reraise ==
  /\ Propagating
  /\ IsLoweringException(exc[Len(exc)])
  /\ Unwind(exc)
  /\ UNCHANGED <<ops, outvals, calls, rules, mstate, app>>

\* except Exception as e: raise LoweringException(...) from e
WrapException ==
  /\ Propagating
  /\ ~IsLoweringException(exc[Len(exc)])
  /\ Unwind(Append(exc, Exception("LoweringException", Eqn(Top).primitive, Top)))
  /\ UNCHANGED <<ops, outvals, calls, rules, mstate, app>>

-----------------------------------------------------------------------------
(* lower_jaxpr_to_module is modelled further down; here it is idle. *)

MIdle == [pc |-> "idle"]

\* No helper function is being applied on its own.
AIdle == [pc |-> "idle"]

TopArgs == <<IrVal(0, 1)>>

\* arg_block_shapes of lower_jaxpr_to_func: the one operand is an 8 x 128 block.
TopBlockShapes == <<BlockShape(<<8, 128>>)>>

Init ==
  /\ \E jaxpr \in Programs :
       /\ stack = <<NewFrame(1, jaxpr, TopArgs, 0, TopBlockShapes)>>
       /\ calls = <<NewCall(0, 0, jaxpr, TopArgs, 0)>>
  /\ ops = <<>>
  /\ exc = <<>>
  /\ status = "running"
  /\ outvals = <<>>
  /\ rules = <<>>
  /\ mstate = MIdle
  /\ app = AIdle

Next ==
  \/ LowerAdd
  \/ LowerAddRaises
  \/ LowerUnregistered
  \/ LoopUnrollNothing
  \/ LoopUnrollBegin
  \/ LoopUnrollUnsupported
  \/ LoopForBegin
  \/ LowerScanUnimplemented
  \/ LowerWhileBegin
  \/ ReturnToWhileCond
  \/ ReturnToWhileBody
  \/ ReturnTop
  \/ ReturnToUnrolledNext
  \/ ReturnToUnrolledLast
  \/ ReturnToFor
  \/ LowerForNothing
  \/ LowerForBegin
  \/ ReturnToForStepNext
  \/ ReturnToForStepLast
  \/ LowerCondBegin
  \/ ReturnToCondNext
  \/ ReturnToCondLast
  \/ LowerRunScopedBegin
  \/ LowerRunScopedRaises
  \/ ReturnToRunScoped
  \/ Reraise
  \/ WrapException

Spec == Init /\ [][Next]_vars

\* The interpreter runs the lowering step after step until it returns or
\* raises.
FairSpec == Spec /\ WF_vars(Next)

-----------------------------------------------------------------------------
(* Error propagation. *)

Primitives == {"add_p", "sort_p", "scan_p", "while_p"}

\* The root cause is the error of lines 832-835.
IsUnsupportedPrimitive(x) ==
  x.type = "NotImplementedError" /\ x.what \in Primitives \ lowering_rules

\* The LoweringExceptions in a chain of causes.
Wrappers(chain) == {i \in DOMAIN chain : chain[i].type = "LoweringException"}

UnregisteredInFlight == exc # <<>> /\ IsUnsupportedPrimitive(exc[1])

\* The equation of the enclosing call whose rule was lowering call c.
EnclosingSite(c) == <<calls[c].parent, calls[c].eqn>>
Site(x) == <<x.call, x.eqn>>

RuleRaisedSite ==
  IF IsUnsupportedPrimitive(exc[1]) THEN EnclosingSite(exc[1].call) ELSE Site(exc[1])

C2_WrappedOnce ==
  exc # <<>> =>
    /\ Cardinality(Wrappers(exc)) <= 1
    /\ \A i \in Wrappers(exc) : i = 2 /\ Site(exc[i]) = RuleRaisedSite
    /\ (status = "raised" /\ ~(IsUnsupportedPrimitive(exc[1]) /\ exc[1].call = 1))
         => Wrappers(exc) = {2}

C2_PassesUnchanged ==
  (exc # <<>> /\ Wrappers(exc) # {}) => exc' = exc

\* C2: an error raised by a rule is wrapped in a LoweringException exactly
\* once, at the innermost equation whose rule raised, and a LoweringException
\* leaves every enclosing jaxpr_subcomp call unchanged.
C2_InnermostWrapping == [][C2_PassesUnchanged /\ C2_WrappedOnce']_vars

\* A rule raised two loops deep and its LoweringException reached the top.
C2_Witness ==
  /\ status = "raised" /\ exc # <<>> /\ ~IsUnsupportedPrimitive(exc[1])
  /\ exc[1].call # 1 /\ calls[exc[1].call].parent # 1
  /\ Wrappers(exc) = {2}

-----------------------------------------------------------------------------
(* Named scopes. *)

TraceCount(o, c) == Cardinality({i \in DOMAIN ops : ops[i].op = o /\ ops[i].call = c})

\* The scopes left open by the markers of call c among ops[i..], starting
\* from the open scopes s; a stop with no scope open is an underflow.
RECURSIVE OpenScopes(_, _, _)
OpenScopes(c, i, s) ==
  IF i > Len(ops) THEN s
  ELSE IF ops[i].call = c /\ ops[i].op = "tpu.trace_start"
       THEN OpenScopes(c, i + 1, Append(s, ops[i].name))
  ELSE IF ops[i].call = c /\ ops[i].op = "tpu.trace_stop"
       THEN IF s = <<>> THEN <<"underflow">>
            ELSE OpenScopes(c, i + 1, SubSeq(s, 1, Len(s) - 1))
  ELSE OpenScopes(c, i + 1, s)

\* C3: a jaxpr_subcomp call that has returned, nested or not, emitted as many
\* trace_stop as trace_start markers and left open exactly the scopes of its
\* entry; while it runs, its markers keep open the name stack it tracks.
C3_ScopesBalanced ==
  /\ \A c \in DOMAIN calls :
       calls[c].returned =>
         /\ TraceCount("tpu.trace_start", c) = TraceCount("tpu.trace_stop", c)
         /\ OpenScopes(c, 1, ctx_name_stack) = ctx_name_stack
  /\ \A i \in DOMAIN stack :
       OpenScopes(stack[i].id, 1, stack[i].initial_name_stack)
         = stack[i].current_name_stack

\* The top-level call and a nested call have both returned after opening
\* scopes, the nested one two of them.
C3_Witness ==
  /\ status = "returned"
  /\ TraceCount("tpu.trace_start", 1) >= 2
  /\ \E c \in DOMAIN calls :
       c # 1 /\ calls[c].returned /\ TraceCount("tpu.trace_start", c) >= 2

-----------------------------------------------------------------------------
(* Program order. *)

RulesOf(c, k) == {i \in DOMAIN rules : rules[i].call = c /\ rules[i].eqn = k}

\* The equation of call c under which equation eqn of call `call` is lowered;
\* 0 when it is not under call c.
RECURSIVE EqnWithin(_, _, _)
EqnWithin(c, call, eqn) ==
  IF call = c THEN eqn
  ELSE IF call = 0 THEN 0
  ELSE EqnWithin(c, calls[call].parent, calls[call].eqn)

\* C4: one rule per equation, in equation order: the operations produced for
\* equation k of a call (those of the bodies it lowers included) all come
\* before the operations of equation k+1, every equation passed has had its
\* rule invoked exactly once, and never twice.
C4_ProgramOrder ==
  /\ \A c \in DOMAIN calls : \A i, j \in DOMAIN ops :
       (i < j /\ EqnWithin(c, ops[i].call, ops[i].eqn) # 0
              /\ EqnWithin(c, ops[j].call, ops[j].eqn) # 0)
         => EqnWithin(c, ops[i].call, ops[i].eqn) <= EqnWithin(c, ops[j].call, ops[j].eqn)
  /\ \A i, j \in DOMAIN rules :
       (i < j /\ rules[i].call = rules[j].call) => rules[i].eqn < rules[j].eqn
  /\ \A c \in DOMAIN calls : \A k \in DOMAIN calls[c].jaxpr.eqns :
       /\ Cardinality(RulesOf(c, k)) <= 1
       /\ calls[c].returned => Cardinality(RulesOf(c, k)) = 1
  /\ \A i \in DOMAIN stack : \A k \in DOMAIN stack[i].jaxpr.eqns :
       k < stack[i].k => Cardinality(RulesOf(stack[i].id, k)) = 1

\* Two equations of the top-level jaxpr, the first a loop whose body has
\* two equations, have all emitted operations.
C4_Witness ==
  /\ status = "returned"
  /\ \E c \in DOMAIN calls :
       /\ calls[c].parent = 1 /\ calls[c].eqn = 1
       /\ \E i, j \in DOMAIN ops : ops[i].call = c /\ ops[i].eqn = 1
                                   /\ ops[j].call = c /\ ops[j].eqn = 2
  /\ \E i \in DOMAIN ops : ops[i].call = 1 /\ ops[i].eqn = 2

-----------------------------------------------------------------------------
(* The value returned. *)

\* The start and the trip count are static and the loop unrolls completely.
FullyUnrolled(e) ==
  /\ e.primitive = "scan_p"
  /\ e.has_loop_index => e.start_static
  /\ e.length = e.unroll

\* Every equation of j, nested bodies included, has a rule and the rule
\* does not raise.
RECURSIVE RulesSucceed(_)
RulesSucceed(j) ==
  \A k \in DOMAIN j.eqns :
    LET e == j.eqns[k]
    IN /\ e.primitive \in lowering_rules
       /\ e.primitive = "add_p" => AddSupported(e.dtype)
       /\ e.primitive = "scan_p" => IsLoop(e)
       /\ IsLoop(e) => /\ FullyUnrolled(e) \/ e.unroll = 1
                       /\ RulesSucceed(e.jaxpr)
       /\ IsFor(e) => RulesSucceed(e.jaxpr)
       /\ \A b \in DOMAIN e.branches : RulesSucceed(e.branches[b])
       /\ e.primitive = "run_scoped_p" =>
            /\ \A a \in DOMAIN e.allocs : alloc_value(e.allocs[a]) \in AllocOpNames
            /\ RulesSucceed(e.jaxpr)

\* What output atom a of call c must resolve to.
ResolvedOutput(c, a, v) ==
  IF a.lit
  THEN /\ v.kind = "ir" /\ v.r = 1 /\ v.n \in DOMAIN ops
       /\ ops[v.n].op = "arith.constant" /\ ops[v.n].val = a.val
       /\ ops[v.n].call = c
  ELSE IF a.var[1] = 0
  THEN v = calls[c].args[a.var[2]]
  ELSE \E r \in DOMAIN rules :
         /\ rules[r].call = c /\ rules[r].eqn = a.var[1]
         /\ v = rules[r].ans[a.var[2]]

OutputsResolved(c) ==
  /\ Len(calls[c].ret) = Len(calls[c].jaxpr.outvars)
  /\ \A i \in DOMAIN calls[c].jaxpr.outvars :
       ResolvedOutput(c, calls[c].jaxpr.outvars[i], calls[c].ret[i])

C5_Outputs ==
  /\ \A c \in DOMAIN calls : calls[c].returned => OutputsResolved(c)
  /\ status = "returned" => calls[1].returned /\ outvals = calls[1].ret

\* C5: when every equation has a rule that succeeds the lowering terminates
\* and returns; a call that returns gives one value per declared output, in
\* the order declared, a literal output being the result of a new constant.
C5_TerminatesWithOutputs ==
  /\ []C5_Outputs
  /\ (status = "running" /\ RulesSucceed(calls[1].jaxpr)) ~> (status = "returned")

\* A jaxpr with a loop has returned a literal and a variable output.
C5_Witness ==
  /\ status = "returned"
  /\ Len(outvals) = 2
  /\ calls[1].jaxpr.outvars[1].lit /\ ~calls[1].jaxpr.outvars[2].lit
  /\ Len(calls) > 1

-----------------------------------------------------------------------------
(* The environment. *)

\* The names bound when equation k of jaxpr j is lowered.
BoundNames(j, k) ==
  {<<0, i>> : i \in 1..j.invars}
  \cup UNION {{<<m, i>> : i \in 1..NumOut(j.eqns[m])} : m \in 1..(k - 1)}

C6_Env ==
  \A i \in DOMAIN stack :
    LET f == stack[i]
    IN /\ DOMAIN f.env = BoundNames(f.jaxpr, f.k)
       /\ \A n \in 1..f.jaxpr.invars : f.env[<<0, n>>] = calls[f.id].args[n]
       /\ \A m \in 1..(f.k - 1) :
            /\ RulesOf(f.id, m) # {}
            /\ \A r \in RulesOf(f.id, m) : \A n \in 1..NumOut(f.jaxpr.eqns[m]) :
                 f.env[<<m, n>>] = rules[r].ans[n]

\* The environment of a call changes only when that call moves to its next
\* equation.
C6_Private ==
  \A i \in DOMAIN stack :
    (i \in DOMAIN stack' /\ stack'[i].id = stack[i].id /\ stack'[i].k = stack[i].k)
      => stack'[i].env = stack[i].env

\* C6: the environment of a call starts with its inputs alone; at equation k
\* it binds exactly the inputs and the outputs of the equations before k,
\* each to what the rule returned; no other call changes it.
C6_Environment == []C6_Env /\ [][C6_Private]_vars

\* A loop equation with two outputs has been bound after its body, lowered
\* by nested calls, returned; the call goes on with its second equation.
C6_Witness ==
  /\ Len(stack) = 1 /\ Top.k = 2 /\ Len(Top.jaxpr.eqns) = 2
  /\ NumOut(Top.jaxpr.eqns[1]) >= 2
  /\ Len(calls) > 2

-----------------------------------------------------------------------------
(* The counted loop. *)

\* The jaxpr_subcomp calls made for the body of equation k of call c, in the
\* order made.
BodyCalls(c, k) == {i \in DOMAIN calls : calls[i].parent = c /\ calls[i].eqn = k}

\* The scf.for operations emitted for equation k of call c.
ForOpsOf(c, k) ==
  {i \in DOMAIN ops : ops[i].op = "scf.for" /\ ops[i].call = c /\ ops[i].eqn = k}

LoopEqnOf(r) == calls[r.call].jaxpr.eqns[r.eqn]

\* The invocations of loop rules in which _lower_jaxpr_to_for_loop returned
\* or raised.
LoopRules ==
  {i \in DOMAIN rules : IsLoop(LoopEqnOf(rules[i]))}

\* The static start of a scan.
StartOf(e) == IF e.has_loop_index THEN e.start ELSE 0

\* n inline copies: the calls are consecutive in time, the index of copy m is
\* a new constant start + m - 1, copy m + 1 consumes what copy m returned,
\* and there is no scf.for.
InlineCopies(r, e) ==
  LET B == BodyCalls(r.call, r.eqn)
      first == CHOOSE b \in B : \A b2 \in B : b <= b2
  IN /\ Cardinality(B) = e.length
     /\ ForOpsOf(r.call, r.eqn) = {}
     /\ \A b \in B :
          /\ calls[b].returned
          /\ calls[b].region = calls[r.call].region
          /\ e.has_loop_index =>
               LET iv == calls[b].args[2]
               IN /\ iv.kind = "ir" /\ ops[iv.n].op = "arith.constant"
                  /\ ops[iv.n].val = StartOf(e) + Cardinality({b2 \in B : b2 < b})
          /\ \A b2 \in B :
               (b2 > b /\ ~\E b3 \in B : b < b3 /\ b3 < b2)
                 => calls[b2].args[Len(calls[b2].args)] = calls[b].ret[1]

\* One scf.for whose region holds the one lowering of the body.
OneLoopRegion(r) ==
  /\ Cardinality(ForOpsOf(r.call, r.eqn)) = 1
  /\ Cardinality(BodyCalls(r.call, r.eqn)) = 1
  /\ \A b \in BodyCalls(r.call, r.eqn) :
       /\ calls[b].returned
       /\ calls[b].region \in ForOpsOf(r.call, r.eqn)
       /\ \A o \in DOMAIN ops :
            (ops[o].call = b /\ ops[o].op # "scf.yield")
              => ops[o].region = calls[b].region
       /\ \E y \in DOMAIN ops :
            /\ ops[y].op = "scf.yield" /\ ops[y].region = calls[b].region
            /\ ops[y].ins = calls[b].ret

\* C10 as stated: whenever the loop does not unroll completely, exactly one
\* structured loop region is emitted.
C10_UnrollOrOneLoop ==
  \A i \in LoopRules :
    IF FullyUnrolled(LoopEqnOf(rules[i]))
    THEN InlineCopies(rules[i], LoopEqnOf(rules[i]))
    ELSE OneLoopRegion(rules[i])

\* C10, amended: static start and trip count n equal to the unroll factor
\* give n inline copies and no loop region; otherwise an unroll factor of 1
\* gives exactly one scf.for whose body lowers the loop body once, and any
\* other unroll factor makes the lowering fail, with no copy of the body
\* and no loop region.
C10_UnrollLoopOrRefuse ==
  \A i \in LoopRules :
    LET r == rules[i]
        e == LoopEqnOf(r)
    IN IF FullyUnrolled(e)
       THEN r.outcome = "ok" /\ InlineCopies(r, e)
       ELSE IF e.unroll = 1
       THEN r.outcome = "ok" /\ OneLoopRegion(r)
       ELSE /\ r.outcome = "unsupported_unroll"
            /\ BodyCalls(r.call, r.eqn) = {}
            /\ ForOpsOf(r.call, r.eqn) = {}
            /\ exc # <<>> /\ exc[1].what = "unroll"

\* A loop has been unrolled in two copies and, in the same lowering, another
\* loop became one scf.for.
C10_Witness ==
  /\ status = "returned"
  /\ \E i, j \in LoopRules :
       /\ FullyUnrolled(LoopEqnOf(rules[i]))
       /\ LoopEqnOf(rules[i]).length = 2
       /\ ~FullyUnrolled(LoopEqnOf(rules[j]))

-----------------------------------------------------------------------------
(* lower_jaxpr_to_module: the block mappings it is given. *)

MaxRank == 2     \* block ranks 0..MaxRank
MaxBlocks == 2   \* block mappings of a grid mapping

\* One dimension: the array's size, the block's size, or a mapped block
\* dimension (pallas_core.mapped), whose size is not looked at.
Dim(a, b, m) == [array |-> a, block |-> b, mapped |-> m]

DimChoices ==
  {Dim(256, 128, FALSE), Dim(256, 256, FALSE), Dim(100, 50, FALSE),
   Dim(100, 100, FALSE), Dim(200, 200, FALSE), Dim(4, 4, FALSE),
   Dim(16, 8, FALSE), Dim(512, 256, FALSE), Dim(1, 0, TRUE)}

BitWidths == {16, 32, 64}

MemorySpaces == {"SMEM", "VMEM", "ANY"}

\* The block covers the whole array, the first half of what
\* bm.has_trivial_window() asks; the other half is an index map of zeros.
WholeArray(dims) ==
  \A i \in DOMAIN dims :
    IF dims[i].mapped THEN dims[i].array = 1 ELSE dims[i].block = dims[i].array

BlockMapping(dims, ms, tw, bw) ==
  [dims |-> dims, memory_space |-> ms, trivial_window |-> tw, bit_width |-> bw]

\* Dimensions before the last two, which no check reads the sizes of.
LeadingDims == {Dim(4, 4, FALSE), Dim(256, 128, FALSE), Dim(1, 0, TRUE)}

\* The shapes of a rank: every choice for the last two dimensions.
Shapes(r) ==
  IF r <= 2 THEN [1..r -> DimChoices]
  ELSE {lead \o last : lead \in [1..(r - 2) -> LeadingDims], last \in [1..2 -> DimChoices]}

\* Every block mapping of a rank: bm.block_shape and bm.array_shape_dtype
\* (the last dimension last), bm.block_aval.memory_space, what
\* bm.has_trivial_window() answers, and the bit width of the element type,
\* which only rank 1 looks at.
BlockMappingsOfRank(r) ==
  UNION {
    {BlockMapping(dims, ms, tw, bw) :
       ms \in MemorySpaces,
       tw \in (IF WholeArray(dims) THEN BOOLEAN ELSE {FALSE}),
       bw \in (IF r = 1 THEN BitWidths ELSE {32})}
    : dims \in Shapes(r)}

BlockMappings == UNION {BlockMappingsOfRank(r) : r \in 0..MaxRank}

TiledBlock ==
  BlockMapping(<<Dim(256, 128, FALSE), Dim(256, 128, FALSE)>>, "VMEM", FALSE, 32)
ScalarBlock == BlockMapping(<<>>, "SMEM", TRUE, 32)
WholeAnyBlock ==
  BlockMapping(<<Dim(256, 256, FALSE), Dim(256, 256, FALSE)>>, "ANY", TRUE, 32)

\* grid_mapping.block_mappings of n operands: any block mapping at any one
\* position, the others one well-formed block mapping.
BlockMappingLists(n) ==
  IF n = 0 THEN {<<>>}
  ELSE {[[i \in 1..n |-> b] EXCEPT ![p] = bm] :
          b \in {TiledBlock, WholeAnyBlock, ScalarBlock}, p \in 1..n, bm \in BlockMappings}

-----------------------------------------------------------------------------
(* lower_jaxpr_to_module: the validation of one block mapping. *)

rank(bm) == Len(bm.dims)

unmapped_bs(bm) ==
  [i \in 1..rank(bm) |-> IF bm.dims[i].mapped THEN 1 ELSE bm.dims[i].block]

bs0(bm) == unmapped_bs(bm)[rank(bm)]
as0(bm) == bm.dims[rank(bm)].array
bs1(bm) == IF rank(bm) >= 2 THEN unmapped_bs(bm)[rank(bm) - 1] ELSE 1
as1(bm) == IF rank(bm) >= 2 THEN bm.dims[rank(bm) - 1].array ELSE 1

\* Lines 446-448.
exempt(bm) == bm.memory_space = "SMEM" /\ bm.trivial_window

\* Line 458 without the test of the jaxlib version.
min_rank_compat(forward_compat, old_jaxlib) == IF forward_compat THEN 2 ELSE 1

\* Lines 458-469.
min_rank(forward_compat, old_jaxlib) ==
  IF forward_compat \/ old_jaxlib THEN 2 ELSE 1

\* Lines 490-493.
evenly_divisible_compat(bm) ==
  /\ bs0(bm) % 128 = 0 \/ (bs0(bm) = as0(bm) /\ as0(bm) < 128)
  /\ bs1(bm) % 8 = 0 \/ (bs1(bm) = as1(bm) /\ as1(bm) < 8)

\* Lines 504-507 without line 506.
evenly_divisible_last(bm) == bs0(bm) = as0(bm) \/ bs0(bm) % 128 = 0

\* Lines 504-507.
evenly_divisible(bm) ==
  /\ bs0(bm) = as0(bm) \/ bs0(bm) % 128 = 0
  /\ bs1(bm) = as1(bm) \/ bs1(bm) % 8 = 0

\* Line 511.
tiling_size(bm) == 128 * (32 \div bm.bit_width)

\* Lines 509-512; `or` does not divide when the sizes are equal.
rank1_divisible(bm) ==
  IF bs0(bm) = as0(bm) THEN "ok"
  ELSE IF tiling_size(bm) = 0 THEN "ZeroDivisionError"
  ELSE IF bs0(bm) % tiling_size(bm) = 0 THEN "ok"
  ELSE "ValueError: divisible"

\* One iteration of the loop of lines 442-520.
validate(bm, forward_compat, old_jaxlib) ==
  IF exempt(bm) THEN "continue"
  ELSE IF rank(bm) < min_rank(forward_compat, old_jaxlib) THEN "ValueError: rank"
  ELSE IF bm.memory_space = "ANY" /\ ~bm.trivial_window THEN "ValueError: ANY"
  ELSE IF forward_compat
       THEN IF evenly_divisible_compat(bm) THEN "ok" ELSE "ValueError: divisible"
  ELSE IF rank(bm) >= 2
       THEN IF evenly_divisible(bm) THEN "ok" ELSE "ValueError: divisible"
  ELSE rank1_divisible(bm)

IsValueError(e) == e \in {"ValueError: rank", "ValueError: ANY", "ValueError: divisible"}

-----------------------------------------------------------------------------
(* lower_jaxpr_to_module: validation, then the module. *)

\* Names of functions: main, and transform_i as <<"transform", i>>.
main == <<"main", 0>>

\* ir.DictAttr.get() with no entry.
NoWindow == [transform_indices |-> <<>>, window_bounds |-> <<>>]

MStart(bms, forward_compat, old_jaxlib, grid) ==
  [pc |-> "validate", block_mappings |-> bms, forward_compat |-> forward_compat,
   old_jaxlib |-> old_jaxlib, grid |-> grid, i |-> 1, error |-> "",
   grid_mapping_built |-> FALSE, body |-> <<>>, sym_tab |-> {},
   window_params |-> <<>>, attributes |-> <<>>]

Validating == mstate.pc = "validate" /\ mstate.i <= Len(mstate.block_mappings)

Validated ==
  validate(mstate.block_mappings[mstate.i], mstate.forward_compat, mstate.old_jaxlib)

\* Lines 446-448: SMEM with a trivial window, no check at all.
ValidateContinue ==
  /\ Validating /\ Validated = "continue"
  /\ mstate' = [mstate EXCEPT !.i = mstate.i + 1]
  /\ UNCHANGED dvars

\* The block mapping passes every check.
ValidateAccept ==
  /\ Validating /\ Validated = "ok"
  /\ mstate' = [mstate EXCEPT !.i = mstate.i + 1]
  /\ UNCHANGED dvars

\* One of the ValueErrors of lines 461, 467, 474, 495 and 515.
ValidateRaise ==
  /\ Validating /\ IsValueError(Validated)
  /\ mstate' = [mstate EXCEPT !.pc = "raised", !.error = Validated]
  /\ UNCHANGED dvars

\* Line 512 with a tiling size of 0.
ValidateDivisionByZero ==
  /\ Validating /\ Validated = "ZeroDivisionError"
  /\ mstate' = [mstate EXCEPT !.pc = "raised", !.error = Validated]
  /\ UNCHANGED dvars

\* Lines 522-537: the grid mapping, the module, the function main.
BuildMain ==
  /\ mstate.pc = "validate" /\ mstate.i > Len(mstate.block_mappings)
  /\ mstate' = [mstate EXCEPT !.pc = IF mstate.grid THEN "assemble" ELSE "attributes",
                              !.i = 1,
                              !.grid_mapping_built = TRUE,
                              !.body = <<main>>,
                              !.sym_tab = {main}]
  /\ UNCHANGED dvars

Assembling == mstate.pc = "assemble" /\ mstate.i <= Len(mstate.block_mappings)

\* f"transform_{i}", i counted from 0.
func_name(i) == <<"transform", i - 1>>

\* Lines 542-545 left out: ANY gets a transform function like the others.
AssembleAnyWindowed ==
  /\ Assembling /\ mstate.block_mappings[mstate.i].memory_space = "ANY"
  /\ mstate' = [mstate EXCEPT
       !.window_params =
          Append(@, [transform_indices |-> func_name(mstate.i),
                     window_bounds |-> unmapped_bs(mstate.block_mappings[mstate.i])]),
       !.body = Append(@, func_name(mstate.i)),
       !.sym_tab = @ \cup {func_name(mstate.i)},
       !.i = mstate.i + 1]
  /\ UNCHANGED dvars

\* Lines 541-545.
AssembleAny ==
  /\ Assembling /\ mstate.block_mappings[mstate.i].memory_space = "ANY"
  /\ mstate' = [mstate EXCEPT !.window_params = Append(@, NoWindow),
                              !.i = mstate.i + 1]
  /\ UNCHANGED dvars

\* Lines 573-575 left out: the window parameters name a function that is
\* in neither the module nor the symbol table.
AssembleWindowUnlisted ==
  /\ Assembling /\ mstate.block_mappings[mstate.i].memory_space # "ANY"
  /\ mstate' = [mstate EXCEPT
       !.window_params =
          Append(@, [transform_indices |-> func_name(mstate.i),
                     window_bounds |-> unmapped_bs(mstate.block_mappings[mstate.i])]),
       !.i = mstate.i + 1]
  /\ UNCHANGED dvars

\* Lines 546-576: the transform function, its window parameters, the module.
AssembleWindow ==
  /\ Assembling /\ mstate.block_mappings[mstate.i].memory_space # "ANY"
  /\ mstate' = [mstate EXCEPT
       !.window_params =
          Append(@, [transform_indices |-> func_name(mstate.i),
                     window_bounds |-> unmapped_bs(mstate.block_mappings[mstate.i])]),
       !.body = Append(@, func_name(mstate.i)),
       !.sym_tab = @ \cup {func_name(mstate.i)},
       !.i = mstate.i + 1]
  /\ UNCHANGED dvars

\* Lines 577-581.
AssembleAttributes ==
  /\ mstate.pc = "assemble" /\ mstate.i > Len(mstate.block_mappings)
  /\ mstate' = [mstate EXCEPT
       !.pc = "attributes",
       !.attributes = @ \o <<"window_params", "iteration_bounds">>]
  /\ UNCHANGED dvars

\* Lines 583-590.
ReturnModule ==
  /\ mstate.pc = "attributes"
  /\ mstate' = [mstate EXCEPT
       !.pc = "done",
       !.attributes = @ \o <<"scalar_prefetch", "scratch_operands",
                             "dimension_semantics">>]
  /\ UNCHANGED dvars

InitModule ==
  /\ \E n \in 0..MaxBlocks, forward_compat \in BOOLEAN,
        old_jaxlib \in BOOLEAN, grid \in BOOLEAN :
       \E bms \in BlockMappingLists(n) :
         mstate = MStart(bms, forward_compat, old_jaxlib, grid)
  /\ stack = <<>>
  /\ ops = <<>>
  /\ exc = <<>>
  /\ status = "idle"
  /\ outvals = <<>>
  /\ calls = <<>>
  /\ rules = <<>>
  /\ app = AIdle

NextModule ==
  \/ ValidateContinue
  \/ ValidateAccept
  \/ ValidateRaise
  \/ ValidateDivisionByZero
  \/ BuildMain
  \/ AssembleAny
  \/ AssembleWindow
  \/ AssembleAttributes
  \/ ReturnModule

SpecModule == InitModule /\ [][NextModule]_vars

-----------------------------------------------------------------------------
(* Block-mapping validation. *)

NothingBuilt ==
  /\ ~mstate.grid_mapping_built
  /\ mstate.body = <<>> /\ mstate.sym_tab = {} /\ mstate.window_params = <<>>
  /\ mstate.attributes = <<>>

\* Block mapping j went through the loop of validation without an error.
Accepted(j) ==
  /\ j \in DOMAIN mstate.block_mappings
  /\ \/ mstate.pc \in {"assemble", "attributes", "done"}
     \/ mstate.pc \in {"validate", "raised"} /\ j < mstate.i

\* Validation stopped with an error at block mapping j.
Rejected(j) == mstate.pc = "raised" /\ j = mstate.i

Judged(j) == Accepted(j) \/ Rejected(j)

\* SMEM with a trivial window.
ScalarWhole(bm) == bm.memory_space = "SMEM" /\ bm.trivial_window

RequiredRank == IF mstate.forward_compat \/ mstate.old_jaxlib THEN 2 ELSE 1

\* The block mappings the divisibility rule is asked about: not exempt, of
\* sufficient rank, and not a windowed ANY.
Tiled(bm) ==
  /\ ~ScalarWhole(bm)
  /\ Len(bm.dims) >= RequiredRank
  /\ ~(bm.memory_space = "ANY" /\ ~bm.trivial_window)

\* The multiple the claim asks of the last dimension: 128 * (32 / w) for rank 1.
ClaimedTiling(bm) == IF Len(bm.dims) = 1 THEN (128 * 32) \div bm.bit_width ELSE 128

\* The rule of the claim.
Legal(bm) ==
  /\ bs0(bm) = as0(bm) \/ bs0(bm) % ClaimedTiling(bm) = 0
  /\ bs1(bm) = as1(bm) \/ bs1(bm) % 8 = 0

\* The rule of forward-compatibility mode.
LegalCompat(bm) ==
  /\ bs0(bm) % 128 = 0 \/ (bs0(bm) = as0(bm) /\ as0(bm) < 128)
  /\ bs1(bm) % 8 = 0 \/ (bs1(bm) = as1(bm) /\ as1(bm) < 8)

ExactlyWhen(j, legal) ==
  /\ Accepted(j) => legal
  /\ Rejected(j) => ~legal /\ mstate.error = "ValueError: divisible"

ArrayOf(bm) == [i \in DOMAIN bm.dims |-> bm.dims[i].array]

C8_RankRule ==
  /\ mstate.pc \in {"validate", "raised"} => NothingBuilt
  /\ \A j \in DOMAIN mstate.block_mappings :
       LET bm == mstate.block_mappings[j]
       IN /\ (Judged(j) /\ ScalarWhole(bm)) => Accepted(j)
          /\ (Judged(j) /\ ~ScalarWhole(bm) /\ Len(bm.dims) < RequiredRank)
               => Rejected(j) /\ mstate.error = "ValueError: rank"
          /\ (Rejected(j) /\ mstate.error = "ValueError: rank")
               => ~ScalarWhole(bm) /\ Len(bm.dims) < RequiredRank

\* A scalar in SMEM went through unchecked, then a block of rank 1 was refused
\* in an older mode.
C8_Witness ==
  /\ mstate.pc = "raised" /\ mstate.i = 2 /\ mstate.error = "ValueError: rank"
  /\ ScalarWhole(mstate.block_mappings[1]) /\ Len(mstate.block_mappings[1].dims) = 0
  /\ Len(mstate.block_mappings[2].dims) = 1
  /\ mstate.old_jaxlib /\ ~mstate.forward_compat

\* The window parameters of the block mappings the loop of line 539 has done.
Windowed(j) ==
  /\ mstate.grid
  /\ \/ mstate.pc \in {"attributes", "done"}
     \/ mstate.pc = "assemble" /\ j < mstate.i

-----------------------------------------------------------------------------
(* The for_p rule and its unroll factor. *)

\* The invocations of the for_p rule that returned or raised.
ForRules == {i \in DOMAIN rules : LoopEqnOf(rules[i]).primitive = "for_p"}

\* The for_p equations of the calls made so far.
ForEqns ==
  {ck \in UNION {{<<c, k>> : k \in DOMAIN calls[c].jaxpr.eqns} : c \in DOMAIN calls} :
     calls[ck[1]].jaxpr.eqns[ck[2]].primitive = "for_p"}

\* C11 as stated: an unroll factor other than 1 and other than the trip count
\* makes the for_p rule fail with the unimplemented-unroll error; no step of
\* such a loop is lowered.
C11_UnrollOrFail ==
  \A ck \in ForEqns :
    LET e == calls[ck[1]].jaxpr.eqns[ck[2]]
    IN e.unroll \notin {1, e.length} =>
         /\ BodyCalls(ck[1], ck[2]) = {}
         /\ \A i \in RulesOf(ck[1], ck[2]) : rules[i].outcome = "unsupported_unroll"

\* The m-th lowering of the body gets a new constant as its index: m - 1, or
\* nsteps - m when the loop is reversed.
ForStepIndex(b, e, m) ==
  LET iv == calls[b].args[1]
  IN /\ iv.kind = "ir" /\ ops[iv.n].op = "arith.constant"
     /\ ops[iv.n].val = (IF e.reverse THEN e.length - m ELSE m - 1)

\* C11, amended: the for_p rule does not read its unroll factor.  For every
\* unroll factor it succeeds, lowering the body in line once per step (nsteps
\* times, the index a constant counting up, or down when reversed) with no
\* loop region; the Ref operand is returned as it was and the array operand
\* is what the last step returned.  No unimplemented-unroll error ever comes
\* from a for_p equation.
C11_ForIgnoresUnroll ==
  /\ \A i \in ForRules :
       LET r == rules[i]
           e == LoopEqnOf(r)
           B == BodyCalls(r.call, r.eqn)
       IN /\ r.outcome = "ok"
          /\ Cardinality(B) = e.length
          /\ ForOpsOf(r.call, r.eqn) = {}
          /\ \A b \in B :
               /\ calls[b].returned
               /\ ForStepIndex(b, e, Cardinality({b2 \in B : b2 <= b}))
               /\ calls[b].args[2] = r.ans[1]
               /\ (\A b2 \in B : b2 <= b) => r.ans[2] = calls[b].ret[1]
  /\ exc # <<>> /\ exc[1].what = "unroll"
       => calls[exc[1].call].jaxpr.eqns[exc[1].eqn].primitive # "for_p"

\* A reversed for_p of two steps whose unroll factor is neither 1 nor 2 has
\* been lowered and the lowering returned.
C11_Witness ==
  /\ status = "returned"
  /\ \E i \in ForRules :
       /\ LoopEqnOf(rules[i]).length = 2
       /\ LoopEqnOf(rules[i]).unroll = 0
       /\ LoopEqnOf(rules[i]).reverse
       /\ Cardinality(BodyCalls(rules[i].call, rules[i].eqn)) = 2

-----------------------------------------------------------------------------
(* _while_lowering_rule through _lower_while_via_fori: what the emitted     *)
(* scf.for computes, next to the while loop it stands for.                  *)

MaxBound == 3    \* loop bounds 0..MaxBound

\* The part of the body that pattern_match_while_to_fori_loop keeps as
\* fori_jaxpr: from the index and the carried value to the carried value.
fori_jaxpr(body, i, x) ==
  CASE body = "add_index" -> (x + i) % 4
    [] body = "double" -> (2 * x + 1) % 4
    [] OTHER -> x

\* The loop the recognizer accepts: cond_jaxpr is counter < bound, body_jaxpr
\* adds 1 to the counter, keeps the bound, and carries the rest.
cond_jaxpr(carry) == carry[1] < carry[2]
body_jaxpr(body, carry) ==
  <<carry[1] + 1, carry[2], fori_jaxpr(body, carry[1], carry[3])>>

WStart(body, lb, ub, x) ==
  [pc |-> "while", body |-> body, args |-> <<lb, ub, x>>,
   carry |-> <<lb, ub, x>>, while_out |-> <<>>,
   i |-> 0, ubd |-> 0, for_carry |-> <<>>, out |-> <<>>]

\* One turn of the while loop: the condition holds, the body runs.
WhileBody ==
  /\ app.pc = "while" /\ cond_jaxpr(app.carry)
  /\ app' = [app EXCEPT !.carry = body_jaxpr(app.body, app.carry)]
  /\ UNCHANGED lvars

\* The condition fails: the carry is the result of the while loop.  Then
\* lines 2229-2243 and 2160-2163: the scf.for starts at lb, its upper bound
\* is lb + (ub - lb), its step is 1 and it carries args.
WhileDone ==
  /\ app.pc = "while" /\ ~cond_jaxpr(app.carry)
  /\ app' = [app EXCEPT !.pc = "for", !.while_out = app.carry,
                        !.i = app.args[1],
                        !.ubd = app.args[1] + (app.args[2] - app.args[1]),
                        !.for_carry = <<app.args[3]>>]
  /\ UNCHANGED lvars

\* One iteration of the scf.for (lines 2164-2167).
ForBody ==
  /\ app.pc = "for" /\ app.i < app.ubd
  /\ app' = [app EXCEPT !.i = app.i + 1,
                        !.for_carry = <<fori_jaxpr(app.body, app.i, app.for_carry[1])>>]
  /\ UNCHANGED lvars

\* The scf.for is over; line 2244: return [ub, ub, *for_out].
ForDone ==
  /\ app.pc = "for" /\ ~(app.i < app.ubd)
  /\ app' = [app EXCEPT !.pc = "done",
                        !.out = <<app.args[2], app.args[2]>> \o app.for_carry]
  /\ UNCHANGED lvars

InitWhile ==
  /\ \E body \in {"add_index", "double", "keep"}, lb \in 0..MaxBound,
        ub \in 0..MaxBound, x \in 0..1 :
       app = WStart(body, lb, ub, x)
  /\ stack = <<>>
  /\ ops = <<>>
  /\ exc = <<>>
  /\ status = "idle"
  /\ outvals = <<>>
  /\ calls = <<>>
  /\ rules = <<>>
  /\ mstate = MIdle

NextWhile == WhileBody \/ WhileDone \/ ForBody \/ ForDone

SpecWhile == InitWhile /\ [][NextWhile]_vars

\* C12: what _while_lowering_rule returns through the counted loop (final
\* counter, upper bound, carried values) equals the final carry of the while
\* loop, for every lower bound, upper bound and carry, lower bound >= upper
\* bound included.
C12_SameFinalCarry == app.pc = "done" => app.out = app.while_out

-----------------------------------------------------------------------------
(* The cascade of scf.if, run for an index. *)

\* The invocations of the cond_p rule that returned.
CondRules == {i \in DOMAIN rules : LoopEqnOf(rules[i]).primitive = "cond_p"}

\* The integer an index value stands for when the operand `index` is i.
RECURSIVE IndexValue(_, _, _)
IndexValue(v, index, i) ==
  IF v = index THEN i
  ELSE CASE ops[v.n].op = "arith.constant" -> ops[v.n].val
         [] ops[v.n].op = "arith.subi" ->
              IndexValue(ops[v.n].ins[1], index, i) - IndexValue(ops[v.n].ins[2], index, i)
         [] OTHER -> 0 - 1

\* The block of the scf.if n that runs: its then block when the condition,
\* a comparison `ne`, holds.
BlockRun(n, index, i) ==
  LET cmp == ops[ops[n].ins[1].n]
  IN IF cmp.op = "arith.cmpi" /\ cmp.name = "ne"
        /\ IndexValue(cmp.ins[1], index, i) # IndexValue(cmp.ins[2], index, i)
     THEN n ELSE 0 - n

\* What rule invocation r emitted itself into block g: scf.if and scf.yield.
RuleOpsIn(r, g, name) ==
  {m \in DOMAIN ops : /\ ops[m].op = name /\ ops[m].region = g
                      /\ ops[m].call = r.call /\ ops[m].eqn = r.eqn}

\* The lowerings of branch bodies that run when the scf.if n runs.
RECURSIVE BranchesRun(_, _, _, _)
BranchesRun(r, n, index, i) ==
  LET g == BlockRun(n, index, i)
  IN IF RuleOpsIn(r, g, "scf.if") # {}
     THEN UNION {BranchesRun(r, m, index, i) : m \in RuleOpsIn(r, g, "scf.if")}
     ELSE {b \in BodyCalls(r.call, r.eqn) : calls[b].region = g}

\* What the scf.if n yields, through the inner scf.if when the block that
\* runs yields the results of one.
RECURSIVE Yielded(_, _, _, _)
Yielded(r, n, index, i) ==
  LET g == BlockRun(n, index, i)
      y == CHOOSE y \in RuleOpsIn(r, g, "scf.yield") : TRUE
  IN IF \E m \in RuleOpsIn(r, g, "scf.if") : ops[y].ins = <<IrVal(m, 1)>>
     THEN Yielded(r, CHOOSE m \in RuleOpsIn(r, g, "scf.if") : TRUE, index, i)
     ELSE ops[y].ins

\* The operand the rule was given as index: what the outermost comparison
\* compares.
IndexOperand(r) == ops[ops[r.ans[1].n].ins[1].n].ins[1]

\* C13: for N >= 2 branches and an index i in 0..N-1 the cascade of scf.if
\* built by the cond_p rule runs the lowering of branch i, that one only,
\* and its result is what that branch returned; every branch is lowered
\* exactly once, each block ends in one yield.
C13_BranchSelected ==
  \A x \in CondRules :
    LET r == rules[x]
        e == LoopEqnOf(r)
        B == BodyCalls(r.call, r.eqn)
        if_op == r.ans[1].n
    IN /\ r.outcome = "ok"
       /\ ops[if_op].op = "scf.if" /\ ops[if_op].call = r.call /\ ops[if_op].eqn = r.eqn
       /\ Cardinality(B) = Len(e.branches)
       /\ Cardinality({m \in DOMAIN ops : ops[m].op = "scf.if" /\ ops[m].call = r.call
                                          /\ ops[m].eqn = r.eqn}) = Len(e.branches) - 1
       /\ \A b \in B :
            /\ calls[b].returned
            /\ Cardinality(RuleOpsIn(r, calls[b].region, "scf.yield")) = 1
       /\ \A i \in 0..(Len(e.branches) - 1) :
            /\ Cardinality({b \in B : calls[b].branch = i}) = 1
            /\ \A b \in B : calls[b].branch = i =>
                 /\ calls[b].jaxpr = e.branches[i + 1]
                 /\ BranchesRun(r, if_op, IndexOperand(r), i) = {b}
                 /\ Yielded(r, if_op, IndexOperand(r), i) = calls[b].ret

\* A cond_p of three branches has been lowered, the branch of index 1 with
\* an equation of its own, and the lowering returned.
C13_Witness ==
  /\ status = "returned"
  /\ \E x \in CondRules :
       /\ Len(LoopEqnOf(rules[x]).branches) = 3
       /\ Len(LoopEqnOf(rules[x]).branches[2].eqns) = 1
       /\ BranchesRun(rules[x], rules[x].ans[1].n, IndexOperand(rules[x]), 1) # {}

-----------------------------------------------------------------------------
(* Scoped allocation. *)

\* The invocations of the run_scoped_p rule that returned.
ScopedRules ==
  {i \in DOMAIN rules : /\ LoopEqnOf(rules[i]).primitive = "run_scoped_p"
                        /\ rules[i].outcome = "ok"}

\* The operations rule invocation r emitted itself under one of the names.
RuleOpsNamed(r, names) ==
  {m \in DOMAIN ops : /\ ops[m].op \in names
                      /\ ops[m].call = r.call /\ ops[m].eqn = r.eqn}

\* The body was lowered once, in the region g, on the constants followed by
\* the allocated values, each allocated in g before anything of the body;
\* the region ends in the yield of what the body returned.
ScopedBody(r, e, g, b) ==
  /\ calls[b].region = g /\ calls[b].returned
  /\ Len(calls[b].args) = calls[b].jaxpr.invars
  /\ Len(calls[b].args) = 2 + Len(e.allocs)
  /\ \A j \in 1..2 : calls[b].args[j].kind = "ir" /\ calls[b].args[j].n < g
  /\ \A i \in DOMAIN e.allocs :
       LET v == calls[b].args[2 + i]
       IN /\ v.kind = "ir" /\ v.n \in RuleOpsNamed(r, AllocOpNames)
          /\ ops[v.n].op = (IF e.allocs[i].kind = "memref"
                            THEN "memref.alloca" ELSE "tpu.sem_alloc")
          /\ ops[v.n].region = g
          /\ \A m \in DOMAIN ops : ops[m].call = b => v.n < m
          /\ \A i2 \in DOMAIN e.allocs : i < i2 => v.n < calls[b].args[2 + i2].n
  /\ \E y \in RuleOpsNamed(r, {"tpu.yield"}) :
       /\ RuleOpsNamed(r, {"tpu.yield"}) = {y}
       /\ ops[y].region = g /\ ops[y].ins = calls[b].ret
       /\ \A m \in DOMAIN ops : ops[m].call = b => m < y

\* While the body is being lowered its context has one block shape per
\* input: those of the constants, then the shape of each allocated Ref.
ScopedBlockShapes ==
  \A i \in 2..Len(stack) :
    stack[i - 1].loop.mode = "scoped" =>
      LET e == stack[i - 1].jaxpr.eqns[stack[i - 1].k]
          bs == stack[i].block_shapes
      IN /\ Len(bs) = stack[i].jaxpr.invars
         /\ \A j \in 1..2 :
              bs[j] = read_block_shape(stack[i - 1],
                        EqnInvars(stack[i - 1].jaxpr, stack[i - 1].k)[j])
         /\ \A j \in DOMAIN e.allocs :
              IF e.allocs[j].kind \in {"memref", "sem_memref"}
              THEN bs[2 + j].known /\ bs[2 + j].shape = e.allocs[j].shape
              ELSE ~bs[2 + j].known

\* C14: run_scoped opens one region, allocates every temporary inside it
\* before any equation of the body is lowered, lowers the body on the
\* constants followed by the allocated values with the block shapes in the
\* same positions, and yields the body's results as the region's results;
\* no allocation is ever emitted outside the region of its rule.
C14_ScopedAllocation ==
  /\ \A x \in ScopedRules :
       LET r == rules[x]
           e == LoopEqnOf(r)
       IN /\ RuleOpsNamed(r, {"tpu.region"}) = {r.ans[1].n}
          /\ ops[r.ans[1].n].region = calls[r.call].region
          /\ Cardinality(RuleOpsNamed(r, AllocOpNames)) = Len(e.allocs)
          /\ Cardinality(BodyCalls(r.call, r.eqn)) = 1
          /\ \A b \in BodyCalls(r.call, r.eqn) : ScopedBody(r, e, r.ans[1].n, b)
  /\ \A m \in DOMAIN ops :
       ops[m].op \in AllocOpNames =>
         /\ ops[m].region \in 1..(m - 1)
         /\ ops[ops[m].region].op = "tpu.region"
         /\ ops[ops[m].region].call = ops[m].call
         /\ ops[ops[m].region].eqn = ops[m].eqn
  /\ ScopedBlockShapes

\* A run_scoped with a VMEM buffer and a semaphore, and a body with an
\* equation, has been lowered and the lowering returned.
C14_Witness ==
  /\ status = "returned"
  /\ \E x \in ScopedRules :
       /\ Len(LoopEqnOf(rules[x]).allocs) = 2
       /\ LoopEqnOf(rules[x]).allocs[1].kind = "memref"
       /\ LoopEqnOf(rules[x]).allocs[2].kind = "semaphore"
       /\ Len(LoopEqnOf(rules[x]).jaxpr.eqns) = 1

-----------------------------------------------------------------------------
(* The type mapper: aval_to_ir_type and what it calls. *)

\* An IR type: a memref, a vector or a scalar of an element type; a memref
\* has a memory space.
IrType(kind, shape, elem, ms) ==
  [kind |-> kind, shape |-> shape, elem |-> elem, memory_space |-> ms]

\* The function raised instead of returning a type.
Raised(e) == IrType(e, <<>>, "", "")

\* Lines 145-153: None is VMEM, the ERROR and INDEX spaces of pallas_core
\* are SMEM, every other space keeps its name.
memory_space_to_tpu_memspace_smem(memory_space) ==
  CASE memory_space = "None" -> "smem"
    [] memory_space \in {"ERROR", "INDEX"} -> "smem"
    [] memory_space = "VMEM" -> "vmem"
    [] memory_space = "SMEM" -> "smem"
    [] memory_space = "ANY" -> "any"
    [] memory_space = "SEMAPHORE" -> "semaphore_mem"
memory_space_to_tpu_memspace(memory_space) ==
  CASE memory_space = "None" -> "vmem"
    [] memory_space \in {"ERROR", "INDEX"} -> "smem"
    [] memory_space = "VMEM" -> "vmem"
    [] memory_space = "SMEM" -> "smem"
    [] memory_space = "ANY" -> "any"
    [] memory_space = "SEMAPHORE" -> "semaphore_mem"

\* Lines 155-174: the element type of a dtype. A boolean at the kernel
\* boundary is BOOL_MEMREF_TYPE (int32, line 79); integers are signless.
dtype_to_ir_type(dtype, is_kernel_boundary) ==
  CASE dtype = "dma_semaphore" -> "!tpu.dma_semaphore"
    [] dtype = "semaphore" -> "!tpu.semaphore"
    [] dtype = "bool" -> IF is_kernel_boundary THEN "i32" ELSE "i1"
    [] dtype \in {"int32", "uint32"} -> "i32"
    [] dtype = "float32" -> "f32"
    [] dtype \in {"int8", "uint8"} -> "i8"
    [] dtype = "int16" -> "i16"
    [] dtype = "int64" -> "i64"
    [] dtype = "float16" -> "f16"
    [] dtype = "bfloat16" -> "bf16"
    [] dtype = "float64" -> "f64"

\* An abstract value: its class, its dtype ("" for a class without one), its
\* shape and, for a semaphore, its sem_type.
AbstractValue(cls, dtype, shape, sem_type) ==
  [cls |-> cls, dtype |-> dtype, shape |-> shape, sem_type |-> sem_type]

\* aval.dtype._impl.key_shape of the key dtype.
key_shape == <<1, 1>>

AvalDtypes == {"int32", "uint32", "bool", "float32", "key", "dma_semaphore"}

AvalShapes == {<<>>, <<8>>, <<8, 128>>}

AbstractValues ==
  {AbstractValue("AbstractSemaphore", "", <<>>, t) : t \in {"DMA", "REGULAR", "BARRIER"}}
    \cup {AbstractValue(c, d, s, "") :
            c \in {"AbstractRef", "ShapedArray"}, d \in AvalDtypes, s \in AvalShapes}
    \cup {AbstractValue("UnshapedArray", d, <<>>, "") : d \in AvalDtypes}
    \cup {AbstractValue("AbstractToken", "", <<>>, "")}

\* Lines 176-216. The tests are made in this order; aval.dtype of a class
\* without a dtype is an AttributeError at line 191.
aval_to_ir_type(aval, shape, memory_space, is_kernel_boundary) ==
  LET sh == IF shape.known THEN shape.shape ELSE aval.shape
  IN CASE aval.cls = "AbstractSemaphore" ->
            IrType("memref", <<>>,
                   IF aval.sem_type = "DMA" THEN "!tpu.dma_semaphore" ELSE "!tpu.semaphore",
                   memory_space_to_tpu_memspace("SEMAPHORE"))
       [] aval.cls = "AbstractToken" -> Raised("AttributeError")
       [] aval.dtype = "key" ->
            IF memory_space \notin {"None", "SMEM"} THEN Raised("ValueError")
            ELSE IrType("memref", key_shape, dtype_to_ir_type("uint32", FALSE),
                        memory_space_to_tpu_memspace("SMEM"))
       [] aval.cls = "AbstractRef" ->
            IrType("memref", sh, dtype_to_ir_type(aval.dtype, TRUE),
                   memory_space_to_tpu_memspace(memory_space))
       [] aval.cls = "ShapedArray" ->
            IF sh = <<>>
            THEN IrType("scalar", <<>>, dtype_to_ir_type(aval.dtype, is_kernel_boundary), "")
            ELSE IrType("vector", sh, dtype_to_ir_type(aval.dtype, is_kernel_boundary), "")
       [] OTHER -> Raised("NotImplementedError")

\* aval_to_ir_type is about to be applied.
TypeStart(aval, shape, memory_space, is_kernel_boundary) ==
  [pc |-> "aval_to_ir_type", aval |-> aval, shape |-> shape,
   memory_space |-> memory_space, is_kernel_boundary |-> is_kernel_boundary]

InitType ==
  \E aval \in AbstractValues, shape \in {NoBlockShape, BlockShape(<<1, 128>>)},
     memory_space \in {"None", "VMEM", "SMEM", "ANY", "SEMAPHORE", "ERROR", "INDEX"},
     is_kernel_boundary \in BOOLEAN :
    app = TypeStart(aval, shape, memory_space, is_kernel_boundary)

ApplyAvalToIrType ==
  /\ app.pc = "aval_to_ir_type"
  /\ app' = [pc |-> "typed", aval |-> app.aval, shape |-> app.shape,
             memory_space |-> app.memory_space,
             is_kernel_boundary |-> app.is_kernel_boundary,
             out |-> aval_to_ir_type(app.aval, app.shape, app.memory_space,
                                     app.is_kernel_boundary)]
  /\ UNCHANGED lvars

-----------------------------------------------------------------------------
(* The memory reference indexer. *)

\* pallas_core.mapped, the marker of a mapped dimension of a block shape.
mapped == 0

\* Block shapes of rank up to r: a dimension is mapped or has 8 elements.
RefBlockShapes(r) == UNION {[1..n -> {mapped, 8}] : n \in 0..r}

\* The indices of an NDIndexer: a Slice, an integer or scalar value (both
\* give size 1, stride 1, squeezed: lines 933-948), or an integer array.
Slice(start, size, stride) ==
  [kind |-> "slice", start |-> start, size |-> size, stride |-> stride]

IntIndex(i) == [kind |-> "int", start |-> i, size |-> 1, stride |-> 1]

ArrayIndex == [kind |-> "array", start |-> 0, size |-> 8, stride |-> 1]

\* The Slice of a whole dimension of d elements.
FullSlice(d) == Slice(0, d, 1)

\* The indices tried of a dimension of d elements: an array where the rule
\* tests for it, a slice of a part of the dimension elsewhere.
IndicesOf(d, arrays) ==
  {FullSlice(d), Slice(0, d \div 2, 2), IntIndex(0)}
    \cup (IF arrays THEN {ArrayIndex} ELSE {Slice(1, d - 1, 1)})

NonMapped(shape) == SelectSeq(shape, LAMBDA s : s # mapped)

\* The indexers that fit a block shape: one index for each dimension that is
\* not mapped.
NDIndexers(shape, arrays) ==
  {ix \in [1..Len(NonMapped(shape)) -> IndicesOf(8, arrays)] :
     \A i \in DOMAIN ix : ix[i].kind = "slice" => ix[i].size <= NonMapped(shape)[i]}

\* indexer.get_indexer_shape(): the shape of the integer arrays, then the
\* sizes of the slices.
get_indexer_shape(indexer) ==
  LET arrays == SelectSeq(indexer, LAMBDA a : a.kind = "array")
      slices == SelectSeq(indexer, LAMBDA a : a.kind = "slice")
  IN (IF arrays = <<>> THEN <<>> ELSE <<arrays[1].size>>)
       \o [i \in 1..Len(slices) |-> slices[i].size]

\* Lines 926-949: start, size, stride and squeeze of an index.
index_to_start_size_stride(idx) ==
  [start |-> idx.start, size |-> idx.size, stride |-> idx.stride,
   squeeze |-> idx.kind # "slice"]

\* Lines 980-982 left out: an index that no dimension takes is ignored.
indexer_to_start_size_stride_lenient(indexer, ref_block_shape) ==
  LET taken(i) == Len(NonMapped(SubSeq(ref_block_shape, 1, i)))
      dims == [i \in 1..Len(ref_block_shape) |->
                 IF ref_block_shape[i] = mapped
                 THEN [start |-> 0, size |-> 1, stride |-> 1, squeeze |-> TRUE]
                 ELSE IF taken(i) <= Len(indexer)
                      THEN index_to_start_size_stride(indexer[taken(i)])
                      ELSE [start |-> 0, size |-> 0, stride |-> 0, squeeze |-> FALSE]]
      kept == SelectSeq(dims, LAMBDA d : ~d.squeeze)
      total == taken(Len(ref_block_shape))
  IN [err |-> IF \E k \in 1..total : k <= Len(indexer) /\ indexer[k].kind = "array"
              THEN "ValueError: Can only use ()-shaped and slice indexing"
              ELSE IF total > Len(indexer) THEN "StopIteration"
              ELSE IF total < Len(indexer) THEN ""
              ELSE "",
      starts |-> [i \in DOMAIN dims |-> dims[i].start],
      sizes |-> [i \in DOMAIN dims |-> dims[i].size],
      strides |-> [i \in DOMAIN dims |-> dims[i].stride],
      squeeze_dims |-> [i \in DOMAIN dims |-> dims[i].squeeze],
      new_ref_block_shape |-> [i \in DOMAIN kept |-> kept[i].size]]

\* Lines 952-991. A mapped dimension takes no index; every other dimension
\* takes the next one; an integer array taken fails in
\* _index_to_start_size_stride (line 943), next() on a used up iterator is a
\* StopIteration, an index left over fails the assertion of line 982.
indexer_to_start_size_stride(indexer, ref_block_shape) ==
  LET taken(i) == Len(NonMapped(SubSeq(ref_block_shape, 1, i)))
      dims == [i \in 1..Len(ref_block_shape) |->
                 IF ref_block_shape[i] = mapped
                 THEN [start |-> 0, size |-> 1, stride |-> 1, squeeze |-> TRUE]
                 ELSE IF taken(i) <= Len(indexer)
                      THEN index_to_start_size_stride(indexer[taken(i)])
                      ELSE [start |-> 0, size |-> 0, stride |-> 0, squeeze |-> FALSE]]
      kept == SelectSeq(dims, LAMBDA d : ~d.squeeze)
      total == taken(Len(ref_block_shape))
  IN [err |-> IF \E k \in 1..total : k <= Len(indexer) /\ indexer[k].kind = "array"
              THEN "ValueError: Can only use ()-shaped and slice indexing"
              ELSE IF total > Len(indexer) THEN "StopIteration"
              ELSE IF total < Len(indexer) THEN "AssertionError"
              ELSE "",
      starts |-> [i \in DOMAIN dims |-> dims[i].start],
      sizes |-> [i \in DOMAIN dims |-> dims[i].size],
      strides |-> [i \in DOMAIN dims |-> dims[i].stride],
      squeeze_dims |-> [i \in DOMAIN dims |-> dims[i].squeeze],
      new_ref_block_shape |-> [i \in DOMAIN kept |-> kept[i].size]]

\* An operation of a load or a swap: its name, its start indices and
\* strides, an attribute (element type or predicate) and the operation whose
\* result it works on (0: an argument of the rule).
AccOp(op, starts, strides, attr, arg) ==
  [op |-> op, starts |-> starts, strides |-> strides, attr |-> attr, arg |-> arg]

\* A reference while a rule works on it: its type, its block shape, the
\* operations emitted so far, and the error raised if any.
Ref(type, block_shape, o, err) ==
  [type |-> type, block_shape |-> block_shape, ops |-> o, err |-> err]

\* Lines 200-206, with the shape lower_jaxpr_to_module gives a block: 1 for
\* a mapped dimension.
RefType(dtype, block_shape, ms) ==
  IrType("memref", [i \in DOMAIN block_shape |->
                      IF block_shape[i] = mapped THEN 1 ELSE block_shape[i]],
         dtype_to_ir_type(dtype, TRUE), ms)

\* Lines 994-1026: the element type of the narrowed types is
\* _dtype_to_ir_type(ref_aval.dtype), without is_kernel_boundary.
slice_memref(ref, dtype, indexer) ==
  LET r == indexer_to_start_size_stride(indexer, ref.block_shape)
      elem == dtype_to_ir_type(dtype, FALSE)
      sliced == AccOp("tpu.memref_slice", r.starts, <<>>, elem, 0)
      squeezed == AccOp("tpu.memref_squeeze", <<>>, <<>>, elem, Len(ref.ops) + 1)
  IN IF r.err # "" THEN Ref(ref.type, ref.block_shape, ref.ops, r.err)
     ELSE IF \E i \in DOMAIN r.strides : r.strides[i] # 1
     THEN Ref(ref.type, ref.block_shape, ref.ops,
              "NotImplementedError: Strided slices of references are unsupported.")
     ELSE IF \E i \in DOMAIN r.squeeze_dims : r.squeeze_dims[i]
     THEN Ref(IrType("memref", get_indexer_shape(indexer), elem, ref.type.memory_space),
              r.new_ref_block_shape, ref.ops \o <<sliced, squeezed>>, "")
     ELSE Ref(IrType("memref", r.sizes, elem, ref.type.memory_space),
              r.new_ref_block_shape, Append(ref.ops, sliced), "")

\* Lines 1029-1033.
RECURSIVE index_ref(_, _, _)
index_ref(ref, dtype, indexers) ==
  IF indexers = <<>> \/ ref.err # "" THEN ref
  ELSE index_ref(slice_memref(ref, dtype, Head(indexers)), dtype, Tail(indexers))

\* The lists of indexers before the last one: none, or one that fits.
SliceIndexers(shape) == {<<>>} \cup {<<ix>> : ix \in NDIndexers(shape, FALSE)}

InitIndexRef ==
  \E dtype \in {"int32", "bool", "float32"}, ms \in {"smem", "vmem"},
     shape \in RefBlockShapes(MaxRank) :
    \E indexers \in SliceIndexers(shape) :
      app = [pc |-> "index_ref", dtype |-> dtype,
             ref |-> Ref(RefType(dtype, shape, ms), shape, <<>>, ""),
             indexers |-> indexers]

ApplyIndexRef ==
  /\ app.pc = "index_ref"
  /\ app' = [pc |-> "indexed", dtype |-> app.dtype, ref |-> app.ref,
             indexers |-> app.indexers,
             out |-> index_ref(app.ref, app.dtype, app.indexers)]
  /\ UNCHANGED lvars

-----------------------------------------------------------------------------
(* Loads and swaps. *)

\* What a rule has emitted and the operation whose result it holds (0: an
\* argument of the rule).
Emit(o, val) == [ops |-> o, val |-> val]

Emitted(e, op) == Emit(Append(e.ops, op), Len(e.ops) + 1)

\* Lines 1144-1174: a boolean is recovered from the loaded integer by a
\* comparison with zero, in the vector and in the scalar case.
maybe_cast_load_to_bool_eq(dtype, e) ==
  IF dtype # "bool" THEN e
  ELSE Emit(e.ops \o <<AccOp("arith.constant", <<>>, <<>>, dtype_to_ir_type("int32", FALSE), 0),
                       AccOp("arith.cmpi", <<>>, <<>>, "eq", e.val)>>,
            Len(e.ops) + 2)
maybe_cast_load_to_bool(dtype, e) ==
  IF dtype # "bool" THEN e
  ELSE Emit(e.ops \o <<AccOp("arith.constant", <<>>, <<>>, dtype_to_ir_type("int32", FALSE), 0),
                       AccOp("arith.cmpi", <<>>, <<>>, "ne", e.val)>>,
            Len(e.ops) + 2)

\* Lines 1177-1183: a boolean is extended to the integer type of the memref.
maybe_cast_store_to_memref_type(dtype, e) ==
  IF dtype # "bool" THEN e
  ELSE Emitted(e, AccOp("arith.extui", <<>>, <<>>, dtype_to_ir_type(dtype, TRUE), e.val))

\* What a rule did: the operations it emitted, the operation whose result it
\* returned (0: none), and the error it raised if any.
Lowered(o, result, err) == [ops |-> o, result |-> result, err |-> err]

\* Lines 1052-1107, for a dtype that is not a PRNG key.
load_lowering_rule_unit(a) ==
  LET ref == index_ref(a.ref, a.dtype, a.slice_indexers)
      is_smem_load == ref.type.memory_space = "smem"
      r == indexer_to_start_size_stride(a.idx, ref.block_shape)
      shape == get_indexer_shape(a.idx)
      elem == dtype_to_ir_type(a.dtype, TRUE)
      here == Emit(ref.ops, Len(ref.ops))
      loaded == Emitted(here, AccOp("vector.load", r.starts, <<>>, elem, here.val))
      cast == IF r.sizes # shape
              THEN Emitted(loaded, AccOp("vector.shape_cast", <<>>, <<>>, elem, loaded.val))
              ELSE loaded
      scalar == maybe_cast_load_to_bool(a.dtype,
                  Emitted(here, AccOp("memref.load", r.starts, <<>>, "", here.val)))
      vector == maybe_cast_load_to_bool(a.dtype, cast)
  IN IF a.mask THEN Lowered(<<>>, 0, "NotImplementedError")
     ELSE IF ref.err # "" THEN Lowered(ref.ops, 0, ref.err)
     ELSE IF ~is_smem_load /\ ref.block_shape = <<>>
     THEN Lowered(ref.ops, 0,
            "NotImplementedError: Indexing into a ()-shaped Ref not yet supported on TPU.")
     ELSE IF \E i \in DOMAIN a.idx : a.idx[i].kind = "array"
     THEN Lowered(ref.ops, 0, "ValueError: Cannot do int indexing on TPU")
     ELSE IF r.err # "" THEN Lowered(ref.ops, 0, r.err)
     ELSE IF is_smem_load
     THEN IF shape # <<>>
          THEN Lowered(ref.ops, 0, "ValueError: Can only load scalars from SMEM")
          ELSE Lowered(scalar.ops, scalar.val, "")
     ELSE Lowered(vector.ops, vector.val, "")
load_lowering_rule(a) ==
  LET ref == index_ref(a.ref, a.dtype, a.slice_indexers)
      is_smem_load == ref.type.memory_space = "smem"
      r == indexer_to_start_size_stride(a.idx, ref.block_shape)
      need_stride == \E i \in DOMAIN r.strides : r.strides[i] # 1
      shape == get_indexer_shape(a.idx)
      elem == dtype_to_ir_type(a.dtype, TRUE)
      here == Emit(ref.ops, Len(ref.ops))
      loaded == Emitted(here, IF need_stride
                              THEN AccOp("tpu.strided_load", r.starts, r.strides, elem, here.val)
                              ELSE AccOp("vector.load", r.starts, <<>>, elem, here.val))
      cast == IF r.sizes # shape
              THEN Emitted(loaded, AccOp("vector.shape_cast", <<>>, <<>>, elem, loaded.val))
              ELSE loaded
      scalar == maybe_cast_load_to_bool(a.dtype,
                  Emitted(here, AccOp("memref.load", r.starts, <<>>, "", here.val)))
      vector == maybe_cast_load_to_bool(a.dtype, cast)
  IN IF a.mask THEN Lowered(<<>>, 0, "NotImplementedError")
     ELSE IF ref.err # "" THEN Lowered(ref.ops, 0, ref.err)
     ELSE IF ~is_smem_load /\ ref.block_shape = <<>>
     THEN Lowered(ref.ops, 0,
            "NotImplementedError: Indexing into a ()-shaped Ref not yet supported on TPU.")
     ELSE IF \E i \in DOMAIN a.idx : a.idx[i].kind = "array"
     THEN Lowered(ref.ops, 0, "ValueError: Cannot do int indexing on TPU")
     ELSE IF r.err # "" THEN Lowered(ref.ops, 0, r.err)
     ELSE IF is_smem_load
     THEN IF shape # <<>>
          THEN Lowered(ref.ops, 0, "ValueError: Can only load scalars from SMEM")
          ELSE Lowered(scalar.ops, scalar.val, "")
     ELSE Lowered(vector.ops, vector.val, "")

\* Lines 1221-1228: the scalar swap; the value to store is argument 0.
swap_scalar(a, here, r) ==
  LET result == maybe_cast_load_to_bool(a.dtype,
                  Emitted(here, AccOp("memref.load", r.starts, <<>>, "", here.val)))
      val == maybe_cast_store_to_memref_type(a.dtype, Emit(result.ops, 0))
  IN Lowered(Append(val.ops, AccOp("memref.store", r.starts, <<>>, "", val.val)),
             result.val, "")

\* Lines 1229-1260: the vector swap.
swap_vector_store_first(a, here, r, shape) ==
  LET need_stride == \E i \in DOMAIN r.strides : r.strides[i] # 1
      elem == dtype_to_ir_type(a.dtype, TRUE)
      val == maybe_cast_store_to_memref_type(a.dtype, Emit(here.ops, 0))
      stored == Append(val.ops,
                  IF need_stride
                  THEN AccOp("tpu.strided_store", r.starts, r.strides, "", val.val)
                  ELSE AccOp("vector.store", r.starts, <<>>, "", val.val))
      loaded == Emitted(Emit(stored, 0),
                  IF need_stride
                  THEN AccOp("tpu.strided_load", r.starts, r.strides, elem, here.val)
                  ELSE AccOp("vector.load", r.starts, <<>>, elem, here.val))
      result == maybe_cast_load_to_bool(a.dtype, loaded)
  IN Lowered(result.ops, result.val, "")
swap_vector(a, here, r, shape) ==
  LET need_stride == \E i \in DOMAIN r.strides : r.strides[i] # 1
      elem == dtype_to_ir_type(a.dtype, TRUE)
      loaded == Emitted(here, IF need_stride
                              THEN AccOp("tpu.strided_load", r.starts, r.strides, elem, here.val)
                              ELSE AccOp("vector.load", r.starts, <<>>, elem, here.val))
      val == maybe_cast_store_to_memref_type(a.dtype, Emit(loaded.ops, 0))
      casts == IF r.sizes # shape
               THEN val.ops \o <<AccOp("vector.shape_cast", <<>>, <<>>, elem, loaded.val),
                                 AccOp("vector.shape_cast", <<>>, <<>>, elem, val.val)>>
               ELSE val.ops
      result == maybe_cast_load_to_bool(a.dtype,
                  Emit(casts, IF r.sizes # shape THEN Len(val.ops) + 1 ELSE loaded.val))
      stored == IF r.sizes # shape THEN Len(val.ops) + 2 ELSE val.val
  IN Lowered(Append(result.ops,
               IF need_stride
               THEN AccOp("tpu.strided_store", r.starts, r.strides, "", stored)
               ELSE AccOp("vector.store", r.starts, <<>>, "", stored)),
             result.val, "")

\* Lines 1186-1260.
masked_swap_lowering_rule_late(a) ==
  LET ref == index_ref(a.ref, a.dtype, a.slice_indexers)
  IN IF ref.err # "" THEN Lowered(ref.ops, 0, ref.err)
     ELSE Lowered(ref.ops, 0, "NotImplementedError")
masked_swap_lowering_rule(a) ==
  LET ref == index_ref(a.ref, a.dtype, a.slice_indexers)
      is_smem_store == ref.type.memory_space = "smem"
      r == indexer_to_start_size_stride(a.idx, ref.block_shape)
      shape == get_indexer_shape(a.idx)
      here == Emit(ref.ops, Len(ref.ops))
  IN IF a.mask THEN Lowered(<<>>, 0, "NotImplementedError")
     ELSE IF ref.err # "" THEN Lowered(ref.ops, 0, ref.err)
     ELSE IF \E i \in DOMAIN a.idx : a.idx[i].kind = "array"
     THEN Lowered(ref.ops, 0, "ValueError: Cannot do int indexing on TPU")
     ELSE IF ~is_smem_store /\ ref.block_shape = <<>>
     THEN Lowered(ref.ops, 0,
            "NotImplementedError: Indexing into a ()-shaped Ref not yet supported on TPU.")
     ELSE IF r.err # "" THEN Lowered(ref.ops, 0, r.err)
     ELSE IF is_smem_store
     THEN IF shape # <<>>
          THEN Lowered(ref.ops, 0, "ValueError: Can only store scalars to SMEM")
          ELSE swap_scalar(a, here, r)
     ELSE swap_vector(a, here, r, shape)

\* A load or a swap about to be lowered: whether it has a mask, the dtype
\* and the reference, the indexers before the last one, and the last one.
Access(rule, mask, dtype, ref, slice_indexers, idx) ==
  [pc |-> rule, mask |-> mask, dtype |-> dtype, ref |-> ref,
   slice_indexers |-> slice_indexers, idx |-> idx]

InitAccess ==
  \E rule \in {"load_p", "swap_p"}, mask \in BOOLEAN, dtype \in {"int32", "bool"},
     ms \in {"smem", "vmem"}, shape \in RefBlockShapes(MaxRank) :
    \E sl \in SliceIndexers(shape) :
      \E idx \in NDIndexers(
                   index_ref(Ref(RefType(dtype, shape, ms), shape, <<>>, ""),
                             dtype, sl).block_shape, TRUE) :
        app = Access(rule, mask, dtype, Ref(RefType(dtype, shape, ms), shape, <<>>, ""),
                     sl, idx)

LowerLoad ==
  /\ app.pc = "load_p"
  /\ app' = [pc |-> "lowered", rule |-> app.pc, access |-> app,
             out |-> load_lowering_rule(app)]
  /\ UNCHANGED lvars

LowerSwap ==
  /\ app.pc = "swap_p"
  /\ app' = [pc |-> "lowered", rule |-> app.pc, access |-> app,
             out |-> masked_swap_lowering_rule(app)]
  /\ UNCHANGED lvars

-----------------------------------------------------------------------------
(* The value a boolean has in memory. *)

MaxLanes == 3   \* elements of a stored vector

\* What the casts compute, element by element, from the value x of the
\* argument: arith.extui of a boolean is 0 or 1, arith.cmpi compares with
\* the zero constant of line 1164; any other operation keeps the value.
RECURSIVE ValueOf(_, _, _)
ValueOf(o, k, x) ==
  IF k = 0 THEN x
  ELSE LET v == ValueOf(o, o[k].arg, x)
       IN CASE o[k].op = "arith.extui" -> [i \in DOMAIN v |-> IF v[i] THEN 1 ELSE 0]
            [] o[k].op = "arith.cmpi" ->
                 [i \in DOMAIN v |-> IF o[k].attr = "ne" THEN v[i] # 0 ELSE v[i] = 0]
            [] OTHER -> v

InitStore ==
  \E n \in 1..MaxLanes :
    \/ \E val \in [1..n -> BOOLEAN] :
         app = [pc |-> "store", dtype |-> "bool", val |-> val]
    \/ \E val \in [1..n -> 0..2] :
         app = [pc |-> "store", dtype |-> "int32", val |-> val]

\* Lines 1226-1227 and 1245-1259: the value is cast and stored.
StoreValue ==
  /\ app.pc = "store"
  /\ LET e == maybe_cast_store_to_memref_type(app.dtype, Emit(<<>>, 0))
     IN app' = [pc |-> "stored", dtype |-> app.dtype, val |-> app.val,
                mem |-> ValueOf(e.ops, e.val, app.val)]
  /\ UNCHANGED lvars

\* Lines 1092-1107: the stored value is loaded and cast.
LoadValue ==
  /\ app.pc = "stored"
  /\ LET e == maybe_cast_load_to_bool(app.dtype, Emit(<<>>, 0))
     IN app' = [pc |-> "loaded", dtype |-> app.dtype, val |-> app.val,
                mem |-> app.mem, out |-> ValueOf(e.ops, e.val, app.mem)]
  /\ UNCHANGED lvars

-----------------------------------------------------------------------------
(* The constant materializer. *)

\* What ir_constant is given: a Python int or float (py, no dtype) or a
\* value with a dtype.
ConstDtypes ==
  {"int8", "uint8", "int16", "int32", "uint32", "int64",
   "float16", "bfloat16", "float32", "float64", "bool"}

\* Lines 219-242: the type and the attribute of the constant, or the error.
\* A Python int or float has become an int32 or float32 array by line 225,
\* so the isinstance tests of lines 227 and 230 see an array.
ir_constant_signed(x, mlir_type) ==
  LET dtype == IF x.py = "int" THEN "int32"
               ELSE IF x.py = "float" THEN "float32" ELSE x.dtype
      type == IF mlir_type = "" THEN dtype_to_ir_type(dtype, FALSE) ELSE mlir_type
  IN CASE dtype \in {"int32", "int8"} ->
            [type |-> type, attr |-> "IntegerAttr", err |-> ""]
       [] dtype \in {"float32", "bfloat16"} ->
            [type |-> type, attr |-> "FloatAttr", err |-> ""]
       [] dtype = "bool" -> [type |-> type, attr |-> "BoolAttr", err |-> ""]
       [] OTHER -> [type |-> "", attr |-> "", err |-> "NotImplementedError"]
ir_constant_typed(x, mlir_type) ==
  LET dtype == IF x.py = "int" THEN "int32"
               ELSE IF x.py = "float" THEN "float32" ELSE x.dtype
      type == IF mlir_type = "" THEN dtype_to_ir_type(dtype, FALSE) ELSE mlir_type
  IN CASE dtype \in {"int32", "uint32", "int8"} ->
            [type |-> type, attr |-> "IntegerAttr", err |-> ""]
       [] dtype \in {"float32", "bfloat16"} ->
            [type |-> type, attr |-> "FloatAttr", err |-> ""]
       [] dtype = "bool" -> [type |-> type, attr |-> "BoolAttr", err |-> ""]
       [] OTHER -> [type |-> "", attr |-> "", err |-> "NotImplementedError"]

InitConstant ==
  \E x \in {[py |-> "int", dtype |-> ""], [py |-> "float", dtype |-> ""]}
            \cup {[py |-> "", dtype |-> d] : d \in ConstDtypes},
     mlir_type \in {"", "i32", "f32", "index"} :
    app = [pc |-> "ir_constant", x |-> x, mlir_type |-> mlir_type]

ApplyIrConstant ==
  /\ app.pc = "ir_constant"
  /\ app' = [pc |-> "constant", x |-> app.x, mlir_type |-> app.mlir_type,
             out |-> ir_constant_typed(app.x, app.mlir_type)]
  /\ UNCHANGED lvars

-----------------------------------------------------------------------------
(* Arithmetic rules whose operation depends on the signedness. *)

\* jnp.issubdtype: the unsigned integer dtypes are integer dtypes too.
issubdtype(dtype, kind) ==
  CASE kind = "integer" ->
         dtype \in {"int8", "int16", "int32", "int64", "uint8", "uint32"}
    [] kind = "unsignedinteger" -> dtype \in {"uint8", "uint32"}
    [] kind = "floating" -> dtype \in {"float16", "bfloat16", "float32", "float64"}
    [] kind = "bool_" -> dtype = "bool"

\* Lines 1771-1780: the tests are made in this order.
div_lowering_rule(dtype) ==
  IF issubdtype(dtype, "integer") THEN [op |-> "arith.divsi", pred |-> 0, err |-> ""]
  ELSE IF issubdtype(dtype, "unsignedinteger")
  THEN [op |-> "arith.divui", pred |-> 0, err |-> ""]
  ELSE IF issubdtype(dtype, "floating") THEN [op |-> "arith.divf", pred |-> 0, err |-> ""]
  ELSE [op |-> "", pred |-> 0, err |-> "NotImplementedError"]

\* Lines 1958-1965: _cmpi_lowering_types, the predicate of arith.cmpi.
cmpi_lowering_types(prim) ==
  CASE prim = "eq_p" -> 0 [] prim = "ne_p" -> 1 [] prim = "lt_p" -> 2
    [] prim = "le_p" -> 3 [] prim = "gt_p" -> 4 [] prim = "ge_p" -> 5

\* Lines 1969-1976: _cmpf_lowering_types, the predicate of arith.cmpf.
cmpf_lowering_types(prim) ==
  CASE prim = "eq_p" -> 1 [] prim = "ne_p" -> 6 [] prim = "lt_p" -> 4
    [] prim = "le_p" -> 5 [] prim = "gt_p" -> 2 [] prim = "ge_p" -> 3

\* Lines 1979-2004: the comparison of two operands of dtypes dx and dy.
cmp_lowering_rule(prim, dx, dy) ==
  IF \A d \in {dx, dy} : issubdtype(d, "integer") \/ issubdtype(d, "bool_")
  THEN [op |-> "arith.cmpi", pred |-> cmpi_lowering_types(prim), err |-> ""]
  ELSE IF \A d \in {dx, dy} : issubdtype(d, "floating")
  THEN [op |-> "arith.cmpf", pred |-> cmpf_lowering_types(prim), err |-> ""]
  ELSE [op |-> "", pred |-> 0, err |-> "NotImplementedError: Mixed dtype operands in cmp"]

\* Lines 2478-2480.
shift_right_logical_lowering_rules(dtype) ==
  [op |-> "arith.shrui", pred |-> 0, err |-> ""]

ArithDtypes == {"int8", "int32", "uint8", "uint32", "float32", "bool"}

InitArith ==
  \E prim \in {"div_p", "shift_right_logical_p", "eq_p", "ne_p", "lt_p", "le_p",
                "gt_p", "ge_p"},
     dx \in ArithDtypes, dy \in ArithDtypes :
    /\ prim \in {"div_p", "shift_right_logical_p"} => dx = dy
    /\ prim = "shift_right_logical_p" => issubdtype(dx, "integer")
    /\ app = [pc |-> prim, dx |-> dx, dy |-> dy]

LowerDiv ==
  /\ app.pc = "div_p"
  /\ app' = [pc |-> "arith", prim |-> app.pc, dx |-> app.dx, dy |-> app.dy,
             out |-> div_lowering_rule(app.dx)]
  /\ UNCHANGED lvars

LowerCmp ==
  /\ app.pc \in {"eq_p", "ne_p", "lt_p", "le_p", "gt_p", "ge_p"}
  /\ app' = [pc |-> "arith", prim |-> app.pc, dx |-> app.dx, dy |-> app.dy,
             out |-> cmp_lowering_rule(app.pc, app.dx, app.dy)]
  /\ UNCHANGED lvars

LowerShiftRightLogical ==
  /\ app.pc = "shift_right_logical_p"
  /\ app' = [pc |-> "arith", prim |-> app.pc, dx |-> app.dx, dy |-> app.dy,
             out |-> shift_right_logical_lowering_rules(app.dx)]
  /\ UNCHANGED lvars

\* _indexer_to_start_size_stride on its own: block shapes and indexers of
\* every length, fitting or not.
InitIndexer ==
  \E shape \in RefBlockShapes(MaxRank), n \in 0..(MaxRank + 1) :
    \E indexer \in [1..n -> IndicesOf(8, TRUE)] :
      app = [pc |-> "indexer", ref_block_shape |-> shape, indexer |-> indexer]

ApplyIndexer ==
  /\ app.pc = "indexer"
  /\ app' = [pc |-> "start_size_stride", ref_block_shape |-> app.ref_block_shape,
             indexer |-> app.indexer,
             out |-> indexer_to_start_size_stride(app.indexer, app.ref_block_shape)]
  /\ UNCHANGED lvars

\* Lines 2541-2557, _alloc_value: the type of what a scoped allocation
\* allocates, for an AbstractMemoryRef (an AbstractRef with a memory space),
\* a semaphore, or anything else.
alloc_value_type(aval, memory_space) ==
  IF aval.cls = "AbstractRef"
  THEN IF aval.dtype \in {"dma_semaphore", "semaphore"}
       THEN IF memory_space = "SEMAPHORE"
            THEN aval_to_ir_type(aval, NoBlockShape, "SEMAPHORE", FALSE)
            ELSE Raised("AssertionError")
       ELSE IrType("memref", aval.shape, dtype_to_ir_type(aval.dtype, TRUE),
                   memory_space_to_tpu_memspace(memory_space))
  ELSE IF aval.cls = "AbstractSemaphore"
  THEN aval_to_ir_type(aval, NoBlockShape, "SEMAPHORE", FALSE)
  ELSE Raised("NotImplementedError")

InitAlloc ==
  \E aval \in {a \in AbstractValues : a.dtype # "key"},
     memory_space \in {"VMEM", "SMEM", "SEMAPHORE"} :
    app = [pc |-> "alloc_value", aval |-> aval, memory_space |-> memory_space]

ApplyAllocValue ==
  /\ app.pc = "alloc_value"
  /\ app' = [pc |-> "allocated", aval |-> app.aval, memory_space |-> app.memory_space,
             out |-> alloc_value_type(app.aval, app.memory_space)]
  /\ UNCHANGED lvars

-----------------------------------------------------------------------------
(* Mesh coordinates and logical device ids. *)

MaxAxes == 3       \* axes of a mesh: 0..MaxAxes
MaxAxisSize == 3   \* devices along an axis: 1..MaxAxisSize

\* np.prod of a tuple of sizes.
RECURSIVE prod(_)
prod(sizes) == IF sizes = <<>> THEN 1 ELSE Head(sizes) * prod(Tail(sizes))

\* pallas_utils.strides_from_shape: the row-major strides of a shape.
strides_from_shape(shape) ==
  [i \in DOMAIN shape |-> prod(SubSeq(shape, i + 1, Len(shape)))]

\* Lines 2587-2588: sum(a * b for a, b in zip(indices, mesh_strides)).
RECURSIVE linearize_mesh_indices(_, _)
linearize_mesh_indices(indices, mesh_strides) ==
  IF indices = <<>> \/ mesh_strides = <<>> THEN 0
  ELSE Head(indices) * Head(mesh_strides)
         + linearize_mesh_indices(Tail(indices), Tail(mesh_strides))

\* Lines 2709-2713 with the axis itself among the minor ones.
axis_index_rule_inclusive(device_id, mesh_shape, axis_index) ==
  (device_id \div prod(SubSeq(mesh_shape, axis_index, Len(mesh_shape))))
     % mesh_shape[axis_index]

\* Lines 2707-2713: device id over the product of the sizes of the later
\* axes, modulo the size of the axis (axis_index counts from 1 here); both
\* operands are not negative, so divsi and remsi are \div and %.
axis_index_rule(device_id, mesh_shape, axis_index) ==
  (device_id \div prod(SubSeq(mesh_shape, axis_index + 1, Len(mesh_shape))))
     % mesh_shape[axis_index]

\* A mesh as the sizes of its axes in the order of mesh.axis_names, and the
\* coordinates of one of its devices.
InitMesh ==
  \E n \in 0..MaxAxes :
    \E mesh \in [1..n -> 1..MaxAxisSize] :
      \E indices \in [1..n -> 0..(MaxAxisSize - 1)] :
        /\ \A i \in 1..n : indices[i] < mesh[i]
        /\ app = [pc |-> "mesh", mesh |-> mesh, indices |-> indices]

\* Lines 378-384: mesh.shape[a] for a in axis_names gives the strides,
\* mesh.shape.values() the shape, both in the order of the axis names.
PrepareMeshInfo ==
  /\ app.pc = "mesh"
  /\ app' = [pc |-> "mesh_info", mesh |-> app.mesh, indices |-> app.indices,
             mesh_shape |-> app.mesh,
             mesh_strides |-> strides_from_shape(app.mesh)]
  /\ UNCHANGED lvars

\* Lines 2580-2596, DeviceIdType.MESH.
DeviceIdToLogical ==
  /\ app.pc = "mesh_info"
  /\ app' = [pc |-> "device_id", mesh |-> app.mesh, indices |-> app.indices,
             mesh_shape |-> app.mesh_shape, mesh_strides |-> app.mesh_strides,
             device_id |-> linearize_mesh_indices(app.indices, app.mesh_strides)]
  /\ UNCHANGED lvars

\* Lines 2697-2714 on the device with that id, for any axis of the mesh.
AxisIndex ==
  /\ app.pc = "device_id"
  /\ \E axis_index \in DOMAIN app.mesh_shape :
       app' = [pc |-> "axis_index", mesh |-> app.mesh, indices |-> app.indices,
               mesh_shape |-> app.mesh_shape, mesh_strides |-> app.mesh_strides,
               device_id |-> app.device_id, axis_index |-> axis_index,
               out |-> axis_index_rule(app.device_id, app.mesh_shape, axis_index)]
  /\ UNCHANGED lvars

\* The helper functions of the rules, each applied on its own to every input.
InitApply ==
  /\ \/ InitType \/ InitIndexRef \/ InitAccess \/ InitStore \/ InitConstant
     \/ InitArith \/ InitIndexer \/ InitAlloc \/ InitMesh
  /\ stack = <<>>
  /\ ops = <<>>
  /\ exc = <<>>
  /\ status = "running"
  /\ outvals = <<>>
  /\ calls = <<>>
  /\ rules = <<>>
  /\ mstate = [pc |-> "idle"]

NextApply ==
  \/ ApplyAvalToIrType
  \/ ApplyIndexRef
  \/ LowerLoad
  \/ LowerSwap
  \/ StoreValue
  \/ LoadValue
  \/ ApplyIrConstant
  \/ LowerDiv
  \/ LowerCmp
  \/ LowerShiftRightLogical
  \/ ApplyIndexer
  \/ ApplyAllocValue
  \/ PrepareMeshInfo
  \/ DeviceIdToLogical
  \/ AxisIndex

SpecApply == InitApply /\ [][NextApply]_vars

-----------------------------------------------------------------------------
(* Indexing round trip. *)

\* The indexer is one full slice for every dimension of the block shape.
IsFullSlice(indexer, shape) ==
  /\ Len(indexer) = Len(NonMapped(shape))
  /\ \A i \in DOMAIN indexer : indexer[i] = FullSlice(NonMapped(shape)[i])

\* C19: for a reference of block shape S and an indexer that is a full
\* slice of every dimension (stride 1, offset 0), _index_ref returns a
\* reference of the same type and the same block shape S.
C19_FullSliceRoundTrip ==
  (/\ app.pc = "indexed"
   /\ \A i \in DOMAIN app.indexers : IsFullSlice(app.indexers[i], app.ref.block_shape))
    => /\ app.out.err = ""
       /\ app.out.type = app.ref.type
       /\ app.out.block_shape = app.ref.block_shape

-----------------------------------------------------------------------------
(* Loads and swaps: the choice of the access. *)

\* The names of the operations a rule emitted.
OpNames(out) == {out.ops[i].op : i \in DOMAIN out.ops}

MemoryOps ==
  {"memref.load", "memref.store", "vector.load", "vector.store",
   "tpu.strided_load", "tpu.strided_store"}

\* The memory operations a load or a swap of one kind emits.
AccessOps(rule, load, store) == IF rule = "load_p" THEN {load} ELSE {load, store}

\* The outcome (memory space, shape) selects for an access that was lowered:
\* ms the memory space of the reference, shape the shape of the value, bs
\* the block shape of the reference and strided whether a stride is not 1.
Selected(rule, out, ms, shape, bs, strided) ==
  IF ms = "smem"
  THEN IF shape = <<>>
       THEN /\ out.err = ""
            /\ OpNames(out) \cap MemoryOps = AccessOps(rule, "memref.load", "memref.store")
       ELSE /\ out.err \in {"ValueError: Can only load scalars from SMEM",
                            "ValueError: Can only store scalars to SMEM",
                            "ValueError: Cannot do int indexing on TPU"}
            /\ OpNames(out) \cap MemoryOps = {}
  ELSE IF bs = <<>>
  THEN /\ out.err = "NotImplementedError: Indexing into a ()-shaped Ref not yet supported on TPU."
       /\ OpNames(out) \cap MemoryOps = {}
  ELSE /\ out.err = ""
       /\ OpNames(out) \cap MemoryOps =
            IF strided THEN AccessOps(rule, "tpu.strided_load", "tpu.strided_store")
            ELSE AccessOps(rule, "vector.load", "vector.store")

\* The block shape of the reference the last indexer is applied to.
SlicedBlockShape(a) == index_ref(a.ref, a.dtype, a.slice_indexers).block_shape

Strided(idx) == \E i \in DOMAIN idx : idx[i].stride # 1

\* C15 as stated: every unmasked load or swap gets the outcome its memory
\* space and shape select: a scalar load/store in SMEM for a scalar, a
\* rejection in SMEM for anything else, a rejection in vector memory for an
\* empty block shape, else a strided vector load/store if a stride is not 1
\* and a unit-stride one if all are; the same for a load and a swap.
C15_EveryAccess ==
  (app.pc = "lowered" /\ ~app.access.mask) =>
    Selected(app.rule, app.out, app.access.ref.type.memory_space,
             get_indexer_shape(app.access.idx), SlicedBlockShape(app.access),
             Strided(app.access.idx))

\* C15, amended: the same for every unmasked load or swap whose indexers
\* before the last one have stride 1 and whose last indexer holds slices and
\* scalar indices only.
C15_AccessDispatch ==
  (/\ app.pc = "lowered" /\ ~app.access.mask
   /\ \A i \in DOMAIN app.access.slice_indexers : ~Strided(app.access.slice_indexers[i])
   /\ \A i \in DOMAIN app.access.idx : app.access.idx[i].kind # "array") =>
    Selected(app.rule, app.out, app.access.ref.type.memory_space,
             get_indexer_shape(app.access.idx), SlicedBlockShape(app.access),
             Strided(app.access.idx))

\* A swap in vector memory with a stride of 2 was lowered to a strided load
\* and a strided store.
C15_Witness ==
  /\ app.pc = "lowered" /\ app.rule = "swap_p" /\ ~app.access.mask
  /\ app.access.ref.type.memory_space = "vmem"
  /\ Strided(app.access.idx)
  /\ app.out.err = ""
  /\ {"tpu.strided_load", "tpu.strided_store"} \subseteq OpNames(app.out)

\* C16: a load or a swap with a mask fails with NotImplementedError in
\* every memory space and for every shape, before any operation of the
\* access is emitted.
C16_MaskedFails ==
  (app.pc = "lowered" /\ app.access.mask) =>
    app.out.err = "NotImplementedError" /\ app.out.ops = <<>>

\* A masked swap of a sliced reference in SMEM was refused.
C16_Witness ==
  /\ app.pc = "lowered" /\ app.rule = "swap_p" /\ app.access.mask
  /\ app.access.slice_indexers # <<>>
  /\ app.access.ref.type.memory_space = "smem"
  /\ app.out.err = "NotImplementedError"

\* The operation whose result operation k hands on, through the casts.
RECURSIVE Source(_, _)
Source(o, k) ==
  IF k = 0 THEN 0
  ELSE IF o[k].op \in {"vector.shape_cast", "arith.cmpi", "arith.extui"}
  THEN Source(o, o[k].arg)
  ELSE k

\* C17: a swap returns what was in memory before the store: on the scalar
\* and on the vector path the load is emitted before the store, with the
\* same start indices and strides, and the result is the loaded value.
C17_SwapReturnsOld ==
  (app.pc = "lowered" /\ app.rule = "swap_p" /\ app.out.err = "") =>
    LET o == app.out.ops
        loads == {i \in DOMAIN o : o[i].op \in {"memref.load", "vector.load", "tpu.strided_load"}}
        stores == {i \in DOMAIN o : o[i].op \in {"memref.store", "vector.store", "tpu.strided_store"}}
    IN /\ Cardinality(loads) = 1 /\ Cardinality(stores) = 1
       /\ \A l \in loads, s \in stores :
            /\ l < s
            /\ o[l].starts = o[s].starts /\ o[l].strides = o[s].strides
            /\ (o[l].op = "memref.load") = (o[s].op = "memref.store")
            /\ Source(o, app.out.result) = l
            /\ Source(o, o[s].arg) = 0

\* A strided swap of booleans in vector memory, with a squeezed dimension,
\* was lowered.
C17_Witness ==
  /\ app.pc = "lowered" /\ app.rule = "swap_p" /\ app.out.err = ""
  /\ app.access.dtype = "bool" /\ Strided(app.access.idx)
  /\ \E i \in DOMAIN app.access.idx : app.access.idx[i].kind = "int"
  /\ \E i \in DOMAIN app.out.ops : app.out.ops[i].op = "tpu.strided_store"

\* C18: a boolean scalar or vector stored and loaded back is the same
\* value: the store extends it to the 4-byte integer 0 or 1, the load
\* compares the integer with zero, not equal.
C18_BoolRoundTrip ==
  /\ (app.pc = "loaded" /\ app.dtype = "bool") =>
       /\ \A i \in DOMAIN app.mem : app.mem[i] \in 0..1
       /\ app.out = app.val
  /\ (app.pc = "lowered" /\ app.access.dtype = "bool" /\ app.out.err = "") =>
       LET o == app.out.ops
       IN /\ \E i \in DOMAIN o : o[i].op = "arith.cmpi"
          /\ app.rule = "swap_p" => \E i \in DOMAIN o : o[i].op = "arith.extui"
          /\ \A i \in DOMAIN o :
               /\ o[i].op = "arith.cmpi" => o[i].attr = "ne"
               /\ o[i].op = "arith.extui" => o[i].attr = "i32"

\* A vector with a true and a false element went through memory.
C18_Witness ==
  /\ app.pc = "loaded" /\ app.dtype = "bool"
  /\ \E i, j \in DOMAIN app.val : app.val[i] /\ ~app.val[j]
  /\ app.out = app.val

-----------------------------------------------------------------------------
(* Constants. *)

\* A Python int becomes a 32-bit integer constant and a Python float a
\* 32-bit float constant when no type is given.
ConstantDefaults ==
  (app.pc = "constant" /\ app.mlir_type = "") =>
    /\ app.x.py = "int" =>
         app.out = [type |-> "i32", attr |-> "IntegerAttr", err |-> ""]
    /\ app.x.py = "float" =>
         app.out = [type |-> "f32", attr |-> "FloatAttr", err |-> ""]

\* C21 as stated: the defaults, and NotImplementedError for every element
\* type outside int8, int32, float32, bfloat16 and bool.
C21_OnlySigned ==
  /\ ConstantDefaults
  /\ (app.pc = "constant" /\ app.x.py = "") =>
       (app.out.err = "NotImplementedError"
          <=> app.x.dtype \notin {"int8", "int32", "float32", "bfloat16", "bool"})

\* C21, amended: the defaults, and NotImplementedError for every element
\* type outside int8, int32, uint32, float32, bfloat16 and bool; a uint32
\* value is an integer constant of the signless 32-bit type.
C21_ConstantTypes ==
  /\ ConstantDefaults
  /\ (app.pc = "constant" /\ app.x.py = "") =>
       /\ app.out.err = "NotImplementedError"
            <=> app.x.dtype \notin {"int8", "int32", "uint32", "float32", "bfloat16", "bool"}
       /\ app.out.err \in {"", "NotImplementedError"}
       /\ (app.x.dtype = "uint32" /\ app.mlir_type = "") =>
            app.out = [type |-> "i32", attr |-> "IntegerAttr", err |-> ""]

\* A uint32 value was made an integer constant.
C21_Witness ==
  /\ app.pc = "constant" /\ app.x.dtype = "uint32" /\ app.out.err = ""
  /\ app.out.attr = "IntegerAttr"

-----------------------------------------------------------------------------
(* Unsigned operands. *)

\* C22: for unsigned integer operands the division is an unsigned divide,
\* the comparisons lt, le, gt and ge use the unsigned predicates of
\* arith.cmpi (ult 6, ule 7, ugt 8, uge 9) and the logical right shift is
\* an unsigned shift; a signed variant is never emitted.
C22_UnsignedOps ==
  (/\ app.pc = "arith"
   /\ issubdtype(app.dx, "unsignedinteger") /\ issubdtype(app.dy, "unsignedinteger")) =>
    /\ app.prim = "div_p" => app.out.op = "arith.divui"
    /\ app.prim = "shift_right_logical_p" => app.out.op = "arith.shrui"
    /\ app.prim = "lt_p" => app.out.op = "arith.cmpi" /\ app.out.pred = 6
    /\ app.prim = "le_p" => app.out.op = "arith.cmpi" /\ app.out.pred = 7
    /\ app.prim = "gt_p" => app.out.op = "arith.cmpi" /\ app.out.pred = 8
    /\ app.prim = "ge_p" => app.out.op = "arith.cmpi" /\ app.out.pred = 9

-----------------------------------------------------------------------------
(* The module that lower_jaxpr_to_module returns. *)

HasAttribute(a) == \E k \in DOMAIN mstate.attributes : mstate.attributes[k] = a

\* The transform functions of the block mappings that are not in ANY, in
\* the order of the block mappings.
Transforms ==
  LET idx == SelectSeq([i \in 1..Len(mstate.block_mappings) |-> i],
                       LAMBDA i : mstate.block_mappings[i].memory_space # "ANY")
  IN  [k \in 1..Len(idx) |-> func_name(idx[k])]

Referenced ==
  {mstate.window_params[k].transform_indices : k \in DOMAIN mstate.window_params}
    \ {<<>>}

\* C23 as stated: the module returned has main and one transform function
\* for every block mapping, and window_params has one entry for every
\* block mapping.
C23_TransformPerOperand ==
  mstate.pc = "done" =>
    /\ Len(mstate.body) = 1 + Len(mstate.block_mappings)
    /\ mstate.body[1] = main
    /\ Len(mstate.window_params) = Len(mstate.block_mappings)

\* C23: every block mapping is validated before the grid mapping is built,
\* and that before the module; the module holds main and, with a grid that
\* is not empty, one transform function for every block mapping that is not
\* in ANY, each in the symbol table; when window_params is attached it has
\* one entry for every block mapping and every function it names is in the
\* module and in the symbol table. With an empty grid the module holds
\* main alone and no window_params.
C23_ModuleAssembly ==
  /\ mstate.pc \in {"assemble", "attributes", "done"} =>
       /\ mstate.grid_mapping_built
       /\ mstate.body # <<>> /\ mstate.body[1] = main
       /\ \A k \in 2..Len(mstate.body) : mstate.body[k][1] = "transform"
  /\ mstate.grid_mapping_built =>
       \A i \in DOMAIN mstate.block_mappings :
         validate(mstate.block_mappings[i], mstate.forward_compat,
                  mstate.old_jaxlib) \in {"ok", "continue"}
  /\ mstate.pc \in {"validate", "raised"} => NothingBuilt
  /\ mstate.sym_tab = {mstate.body[k] : k \in DOMAIN mstate.body}
  /\ HasAttribute("window_params") =>
       /\ mstate.grid
       /\ Len(mstate.window_params) = Len(mstate.block_mappings)
       /\ Referenced \subseteq mstate.sym_tab
       /\ \A k \in DOMAIN mstate.window_params :
            mstate.window_params[k].transform_indices =
              IF mstate.block_mappings[k].memory_space = "ANY" THEN <<>>
              ELSE func_name(k)
  /\ mstate.pc = "done" =>
       /\ mstate.body = <<main>> \o (IF mstate.grid THEN Transforms ELSE <<>>)
       /\ HasAttribute("window_params") = mstate.grid
       /\ ~mstate.grid => mstate.window_params = <<>>

\* A module of two operands, one of them in ANY, was returned.
C23_Witness ==
  /\ mstate.pc = "done" /\ mstate.grid
  /\ Len(mstate.block_mappings) = 2
  /\ mstate.block_mappings[1].memory_space = "ANY"
  /\ mstate.block_mappings[2].memory_space # "ANY"
  /\ mstate.body = <<main, func_name(2)>>
  /\ HasAttribute("window_params")

-----------------------------------------------------------------------------
(* Start, size and stride of an indexer. *)

\* The number of dimensions among the first i that are not mapped.
Consumed(shape, i) == Cardinality({j \in 1..i : shape[j] # mapped})

\* C24: _indexer_to_start_size_stride fails when an index is left over;
\* when it returns, starts, sizes, strides and squeeze_dims have one entry
\* for every dimension of the block shape, a mapped dimension has start 0,
\* size 1, stride 1 and is squeezed, the k-th dimension that is not mapped
\* has the start, size and stride of the k-th index, every index is taken,
\* and the new block shape is the sizes of the dimensions that are not
\* squeezed, in order.
C24_IndexerTuples ==
  app.pc = "start_size_stride" =>
    LET shape == app.ref_block_shape
        ix == app.indexer
        r == app.out
        n == Len(shape)
        keep == SelectSeq([i \in 1..n |-> i], LAMBDA i : ~r.squeeze_dims[i])
    IN /\ Len(ix) > Consumed(shape, n) => r.err # ""
       /\ r.err = "" =>
            /\ Len(r.starts) = n /\ Len(r.sizes) = n
            /\ Len(r.strides) = n /\ Len(r.squeeze_dims) = n
            /\ Len(ix) = Consumed(shape, n)
            /\ \A i \in 1..n :
                 IF shape[i] = mapped
                 THEN /\ r.starts[i] = 0 /\ r.sizes[i] = 1
                      /\ r.strides[i] = 1 /\ r.squeeze_dims[i]
                 ELSE LET idx == ix[Consumed(shape, i)]
                      IN /\ r.starts[i] = idx.start /\ r.sizes[i] = idx.size
                         /\ r.strides[i] = idx.stride
                         /\ r.squeeze_dims[i] = (idx.kind # "slice")
            /\ r.new_ref_block_shape = [k \in 1..Len(keep) |-> r.sizes[keep[k]]]

\* A block shape with a mapped dimension was indexed by one strided slice.
C24_Witness ==
  /\ app.pc = "start_size_stride"
  /\ app.ref_block_shape = <<mapped, 8>>
  /\ app.indexer = <<Slice(0, 4, 2)>>
  /\ app.out.err = ""
  /\ app.out.squeeze_dims = <<TRUE, FALSE>>
  /\ app.out.new_ref_block_shape = <<4>>

-----------------------------------------------------------------------------
(* The markers of a name-stack update. *)

IsMarker(o) == o.op \in {"tpu.trace_stop", "tpu.trace_start"}

\* The length of the longest common prefix of two name stacks.
LongestCommonPrefix(old, new) ==
  CHOOSE n \in 0..Len(old) :
    /\ n <= Len(new)
    /\ SubSeq(old, 1, n) = SubSeq(new, 1, n)
    /\ \A m \in (n + 1)..Len(old) :
         m <= Len(new) => SubSeq(old, 1, m) # SubSeq(new, 1, m)

\* C25: when jaxpr_subcomp lowers an equation of a registered primitive, with
\* old the name stack it tracks, new the equation's and p their longest
\* common prefix, what it emits is the conversions of the operands, then one
\* scope-exit marker for every name of old after p, then one scope-enter
\* marker for every name of new after p, in order, and only then what the
\* rule emits; so old = p + popped and new = p + pushed.
C25_NameStackUpdate ==
  [][(Running /\ AtEqn(Top) /\ Eqn(Top).primitive \in lowering_rules) =>
      LET old == Top.current_name_stack
          new == ctx_name_stack \o Eqn(Top).name_stack
          n == LongestCommonPrefix(old, new)
          seg == SubSeq(ops', Len(ops) + 1, Len(ops'))
          at == SelectSeq([i \in 1..Len(seg) |-> i], LAMBDA i : IsMarker(seg[i]))
          popped == Len(old) - n
          pushed == SubSeq(new, n + 1, Len(new))
      IN /\ Len(ops') >= Len(ops) /\ SubSeq(ops', 1, Len(ops)) = ops
         /\ Len(at) = popped + Len(pushed)
         /\ \A k \in 1..Len(at) :
              /\ k > 1 => at[k] = at[k - 1] + 1
              /\ seg[at[k]].call = Top.id
              /\ IF k <= popped THEN seg[at[k]].op = "tpu.trace_stop"
                 ELSE /\ seg[at[k]].op = "tpu.trace_start"
                      /\ seg[at[k]].name = pushed[k - popped]
         /\ at # <<>> =>
              /\ \A i \in 1..(at[1] - 1) : seg[i].op = "arith.constant"
              /\ Eqn(Top).primitive \in skip_mlir_conversions => at[1] = 1]_vars

\* The scope "a" was left and the scope "b" entered before the addition of
\* the same equation.
C25_Witness ==
  \E i \in DOMAIN ops, j \in DOMAIN ops :
    /\ i + 1 < j
    /\ ops[i].op = "tpu.trace_stop"
    /\ ops[i + 1].op = "tpu.trace_start" /\ ops[i + 1].name = "b"
    /\ ops[j].op \in {"arith.addi", "arith.addf"}
    /\ ops[j].call = ops[i].call /\ ops[j].eqn = ops[i].eqn

-----------------------------------------------------------------------------
(* The scans the rule takes. *)

\* The operations emitted for equation k of call c, those of the bodies it
\* lowers not included.
OpsOfEqn(c, k) == {i \in DOMAIN ops : ops[i].call = c /\ ops[i].eqn = k}

\* C26: a scan with an extensive operand, a reversal or constants closed
\* over by its body fails in its rule with NotImplementedError before a body
\* is lowered and before the rule emits an operation (what is emitted for the
\* equation is the markers of its named scopes, which come before the rule);
\* no other scan fails that way, and no equation after a refused scan is
\* reached.
C26_ScanPreconditions ==
  /\ \A i \in DOMAIN rules :
       LET r == rules[i]
           e == LoopEqnOf(r)
       IN e.primitive = "scan_p" =>
            IF e.num_extensive # 0 \/ e.reverse \/ e.jaxpr_consts # 0
            THEN /\ r.outcome = "unimplemented_scan"
                 /\ BodyCalls(r.call, r.eqn) = {}
                 /\ \A o \in OpsOfEqn(r.call, r.eqn) : IsMarker(ops[o])
                 /\ exc # <<>>
                 /\ exc[1].type = "NotImplementedError" /\ exc[1].what = "scan"
                 /\ exc[1].call = r.call /\ exc[1].eqn = r.eqn
                 /\ i = Len(rules)
            ELSE r.outcome # "unimplemented_scan"
  /\ \A i \in DOMAIN stack : \A k \in DOMAIN stack[i].jaxpr.eqns :
       LET e == stack[i].jaxpr.eqns[k]
       IN (k < stack[i].k /\ e.primitive = "scan_p") =>
            ~(e.num_extensive # 0 \/ e.reverse \/ e.jaxpr_consts # 0)
  /\ status = "returned" =>
       \A k \in DOMAIN calls[1].jaxpr.eqns :
         LET e == calls[1].jaxpr.eqns[k]
         IN e.primitive = "scan_p" =>
              ~(e.num_extensive # 0 \/ e.reverse \/ e.jaxpr_consts # 0)

\* A reversed scan in a named scope of its own was refused after the marker
\* of that scope, and the lowering has failed.
C26_Witness ==
  /\ status = "raised"
  /\ \E i \in DOMAIN rules :
       /\ rules[i].outcome = "unimplemented_scan"
       /\ LoopEqnOf(rules[i]).reverse
       /\ LoopEqnOf(rules[i]).num_extensive = 0
       /\ LoopEqnOf(rules[i]).jaxpr_consts = 0
       /\ OpsOfEqn(rules[i].call, rules[i].eqn) # {}

-----------------------------------------------------------------------------
(* The counter a scan returns. *)

\* C29: a scan with a loop index and a static start index returns as its
\* first value the constant start + length.
C29_FinalCounter ==
  \A i \in DOMAIN rules :
    LET r == rules[i]
        e == LoopEqnOf(r)
    IN (e.primitive = "scan_p" /\ e.has_loop_index /\ e.start_static
        /\ r.outcome = "ok") =>
         /\ r.ans[1].kind = "ir"
         /\ ops[r.ans[1].n].op = "arith.constant"
         /\ ops[r.ans[1].n].val = e.start + e.length

-----------------------------------------------------------------------------
(* The storage of booleans. *)

\* C27: every memref type made for a reference of dtype bool has the element
\* type i32: the type of a kernel argument, the type of a scoped
\* allocation, and the narrowed type that slicing and squeezing give.
C27_BoolStorage ==
  /\ (app.pc = "typed" /\ app.aval.cls = "AbstractRef" /\ app.aval.dtype = "bool") =>
       app.out.kind = "memref" /\ app.out.elem = "i32"
  /\ (app.pc = "allocated" /\ app.aval.cls = "AbstractRef" /\ app.aval.dtype = "bool") =>
       app.out.kind = "memref" /\ app.out.elem = "i32"
  /\ (app.pc = "indexed" /\ app.dtype = "bool" /\ app.out.err = "") =>
       app.out.type.kind = "memref" /\ app.out.type.elem = "i32"

-----------------------------------------------------------------------------
(* Mesh coordinates survive the logical device id. *)

-----------------------------------------------------------------------------
(* The terminators of the regions. *)

Terminators == {"scf.yield", "scf.condition", "tpu.yield"}

\* Block `region` holds exactly one terminator, one of `names`, and no
\* operation of the block comes after it.
Terminated(region, names) ==
  LET T == {i \in DOMAIN ops : ops[i].region = region /\ ops[i].op \in Terminators}
  IN /\ Cardinality(T) = 1
     /\ \A t \in T :
          /\ ops[t].op \in names
          /\ \A j \in DOMAIN ops : ops[j].region = region => j <= t

\* C30: when the lowering has returned, the body of every scf.for, both
\* blocks of every scf.if, the before and the after block of every
\* scf.while and every tpu.region end with exactly one terminator, which
\* comes after every operation of the block.
C30_RegionsTerminated ==
  status = "returned" =>
    \A w \in DOMAIN ops :
      /\ ops[w].op = "scf.for" => Terminated(w, {"scf.yield"})
      /\ ops[w].op = "scf.if" =>
           Terminated(w, {"scf.yield"}) /\ Terminated(0 - w, {"scf.yield"})
      /\ ops[w].op = "scf.while" =>
           Terminated(w, {"scf.condition"}) /\ Terminated(0 - w, {"scf.yield"})
      /\ ops[w].op = "tpu.region" => Terminated(w, {"tpu.yield"})

====
